---- MODULE Spec2Model ----
(***************************************************************************)
(* State-machine model of two programs of cloudengio/citools:              *)
(*                                                                         *)
(*   cft     chrome-for-testing's browser.init (init.go): launch the       *)
(*           browser, poll for the profile directory, signal the process,  *)
(*           poll for removal of the SingletonLock file.                   *)
(*   poller  the file poller (main and waitForFile): one goroutine per     *)
(*           file, each polling for its file until a deadline or an        *)
(*           interrupt.                                                    *)
(*                                                                         *)
(* Time is discrete, one unit per second.  A goroutine that can take a     *)
(* step takes it before time advances (computation takes no time; time     *)
(* passes only while a select has no ready case, or inside a blocking      *)
(* library call).  A select with several ready cases picks any of them.    *)
(***************************************************************************)
EXTENDS Integers, Sequences, FiniteSets, TLC

\* ---------------------------------------------------------------- bounds
\* Largest timeout handed to browser.init (the caller passes 30 s).
MaxTimeout == 10

\* Largest number of files given to the file poller.
MaxFiles == 2
\* Largest -total of the file poller, seconds (the flag's default is 10 s).
MaxTotal == 3
\* Largest -interval of the file poller, seconds (the flag's default is 1 s).
MaxInterval == 2

\* ------------------------------------------------------ program constants
\* time.NewTicker(1 * time.Second) in both poll loops of init.go.
TickInterval == 1
\* executil.SignalAndWait(ctx, time.Second, ...): wait per signal.
PerSignalWait == 1

VARIABLES
    prog,         \* which program this run executes: "cft" | "poller"
    \* ---- browser.init
    pc,           \* position of browser.init
    result,       \* what browser.init returned: NotReturned | Nil | an error
    sigIdx,       \* index of the next signal SignalAndWait sends
    stillRunning, \* !executil.IsStopped(pid) as evaluated at init.go:66
    calls,        \* log of the calls browser.init has made, in order
    timeout,      \* the timeout parameter of browser.init
    now,          \* clock, seconds
    deadline,     \* deadline of the context.WithTimeout of the current wait
    tick,         \* a value is waiting in ticker.C
    ctxErr,       \* ctx.Err() of the current wait's context
    cancelled,    \* the caller's context has been cancelled
    cancelPc,     \* where browser.init was when the cancellation arrived, with
                  \* "select+tick" when a poll loop had a tick waiting in ticker.C
    proc,         \* the launched process: "none" | "running" | "exited"
    ignoresInt,   \* the process survives os.Interrupt
    ignoresKill,  \* the process survives os.Kill (signal not delivered/effective)
    profile,      \* <userDataDir>/Default: "absent" | "dir" | "file"
    lock,         \* <userDataDir>/Default/SingletonLock exists
    \* ---- observations of the run (history variables)
    profRet,      \* return value of waitForProfile: "none" | "true" | "false"
    profCause,    \* why waitForProfile returned
    profPolls,    \* number of os.Stat polls waitForProfile made
    profAt,       \* time at which waitForProfile returned
    lockRet,      \* return value of waitForLockFileRemoval
    lockCause,    \* why waitForLockFileRemoval returned
    lockPolls,    \* number of os.Stat polls waitForLockFileRemoval made
    lockAbsentAt, \* time of the poll that saw the lock file absent, or -1
    createdAt,    \* time the profile directory was created during the run, or -1
    pollsSinceCreate, \* profile polls made since that creation
    ioErrs,       \* a stat of the profile failed with an I/O error
    lastStat,     \* outcome of the latest os.Stat of a poll loop, or "none"
    \* ---- file poller
    files,        \* flag.Args(): the set of file indexes 1..len(files)
    interval,     \* -interval
    total,        \* -total
    mainPc,       \* position of main
    wfPc,         \* position of each file's goroutine
    wfTick,       \* per goroutine: a value is waiting in its ticker.C
    wfRet,        \* per goroutine: what waitForFile returned
    wfCause,      \* per goroutine: why waitForFile returned
    fileThere,    \* per file: the file exists
    ctxCause,     \* context.Cause of the waitForFile contexts
    interrupted,  \* os.Interrupt or SIGTERM was received
    errCh,        \* contents of the buffered channel errCh
    wg,           \* the WaitGroup's counter
    exitCode,     \* exit code of the process, -1 while running
    elapsed,      \* the file poller's clock, seconds since the waits began
    \* ---- chrome-for-testing install
    ap,           \* applicationPaths under test: its input and its results
    disk,         \* the file system: absolute path |-> file or directory
    uz,           \* an unzip call: its archive, position and result
    inst,         \* per installCmd invocation: its position and locals
    icfg,         \* flags, environment and remote content of the install runs
    outFile,      \* the lines of the file named by GITHUB_OUTPUT
    issued,       \* the identifiers uuid.NewRandom has returned
    \* ---- multimod
    mm            \* a run of multimod's main: its inputs, position and history

ctlVars == <<pc, result, sigIdx, stillRunning, calls>>
clkVars == <<now, deadline, tick, ctxErr>>
envVars == <<cancelled, cancelPc, proc, profile, lock, createdAt>>
parVars == <<prog, timeout, ignoresInt, ignoresKill>>
profObs == <<profRet, profCause, profPolls, profAt, pollsSinceCreate, ioErrs, lastStat>>
lockObs == <<lockRet, lockCause, lockPolls, lockAbsentAt>>
cftVars == <<ctlVars, clkVars, envVars, timeout, ignoresInt, ignoresKill, profObs, lockObs>>

pollerVars == <<files, interval, total, mainPc, wfPc, wfTick, wfRet, wfCause, fileThere,
                ctxCause, interrupted, errCh, wg, exitCode, elapsed>>

\* State of the chrome-for-testing install command: the paths under test
\* (ap), the file system (disk), an unzip call (uz), the installCmd
\* invocations (inst), their configuration (icfg), the GITHUB_OUTPUT file
\* (outFile) and the random identifiers handed out so far (issued).
toolVars == <<ap, disk, uz, inst, icfg, outFile, issued, mm>>
vars == <<prog, cftVars, pollerVars, toolVars>>

\* ------------------------------------------------------------ browser.init
\* profileDir := filepath.Join(b.userDataDir, "Default")
profileDir == <<"userDataDir", "Default">>
\* lockFile := filepath.Join(profileDir, "SingletonLock")
lockFile == Append(profileDir, "SingletonLock")

\* Values of browser.init's error result.
NotReturned == <<"not returned">>
Nil == <<"nil">>
\* fmt.Errorf("failed to start command: ...")
ErrStart == <<"failed to start command">>
\* fmt.Errorf("browser lock file %q still present after timeout", lockFile)
ErrLock == <<"browser lock file still present after timeout", lockFile>>

\* The signals browser.init hands to executil.SignalAndWait, in order.
initSignalsNoKill == <<"os.Interrupt">>
initSignals == <<"os.Interrupt", "os.Kill">>

\* Outcomes of one stat system call besides what the file system holds.
IoOutcomes == {"ok", "EIO"}

\* os.Stat(path) against the file system state (p: the profile path, l: the
\* lock file), io: a transient I/O failure of this very call.
osStat(path, p, l, io) ==
    IF io # "ok" THEN io
    ELSE IF path = profileDir
         THEN CASE p = "absent" -> "ENOENT"
                [] p = "dir"    -> "IsDir"
                [] p = "file"   -> "NotDir"
         ELSE CASE p = "absent" -> "ENOENT"
                [] p = "file"   -> "ENOTDIR"
                [] p = "dir"    -> IF l THEN "IsFile" ELSE "ENOENT"

\* The ticker case of waitForProfile: what the loop does with a stat result.
waitForProfilePollNotExistFails(st) ==
    IF st = "IsDir" THEN "true" ELSE IF st = "EIO" THEN "continue" ELSE "false"
waitForProfilePollLate(st) ==
    IF st = "NotDir" THEN "false" ELSE "continue"
waitForProfilePoll(st) ==
    IF st \in {"IsDir", "NotDir", "IsFile"}        \* err == nil
    THEN IF st # "IsDir" THEN "false" ELSE "true"   \* !fi.IsDir()
    ELSE "continue"                                 \* other error, or not exist

\* The ticker case of waitForLockFileRemoval.
waitForLockFileRemovalPollAnyErr(st) ==
    IF st \notin {"IsDir", "NotDir", "IsFile"} THEN "true" ELSE "continue"
waitForLockFileRemovalPoll(st) ==
    IF st = "ENOENT" THEN "true"                    \* os.IsNotExist(err)
    ELSE "continue"

\* What browser.init returns after waitForLockFileRemoval.
initAfterLockWaitAlwaysNil(removed) == Nil
initAfterLockWait(removed) == IF removed THEN Nil ELSE ErrLock

\* A signal delivered to the launched process.
deliver(sig, p, ignInt, ignKill) ==
    IF p # "running" THEN p
    ELSE IF sig = "os.Interrupt" THEN (IF ignInt THEN p ELSE "exited")
    ELSE IF sig = "os.Kill" THEN (IF ignKill THEN p ELSE "exited")
    ELSE p

InWait == pc \in {"waitForProfile", "waitForLockFileRemoval"}

\* cmd.Start(), then the entry of waitForProfile (ticker and timeout context).
StartCmd ==
    /\ prog = "cft" /\ pc = "NotStarted"
    /\ \E ok \in BOOLEAN :
         IF ok
         THEN /\ proc' = "running"
              /\ pc' = "waitForProfile"
              /\ calls' = calls \o <<"Start", "waitForProfile">>
              /\ deadline' = now + timeout
              /\ result' = result
         ELSE /\ proc' = proc
              /\ pc' = "done"
              /\ calls' = Append(calls, "Start")
              /\ deadline' = deadline
              /\ result' = ErrStart
    /\ tick' = FALSE /\ ctxErr' = "nil"
    /\ UNCHANGED <<pollerVars, toolVars>>
    /\ UNCHANGED <<sigIdx, stillRunning, now, cancelled, cancelPc, profile, lock, createdAt,
                   parVars, profObs, lockObs>>

\* waitForProfile, case <-ticker.C, and what browser.init does on its return.
WaitForProfileTick ==
    /\ prog = "cft" /\ pc = "waitForProfile" /\ tick
    /\ \E io \in IoOutcomes :
         LET st == osStat(profileDir, profile, lock, io)
             d  == waitForProfilePoll(st)
         IN /\ ioErrs' = (ioErrs \/ io # "ok")
            /\ lastStat' = st
            /\ IF d = "continue"
               THEN UNCHANGED <<pc, result, calls, profRet, profCause, profAt>>
               ELSE /\ profRet' = d
                    /\ profCause' = IF d = "true" THEN "ready" ELSE "notdir"
                    /\ profAt' = now
                    /\ IF d = "true"
                       THEN /\ pc' = "done" /\ result' = Nil /\ calls' = calls
                       ELSE /\ pc' = "SignalAndWait" /\ result' = result
                            /\ calls' = Append(calls, "SignalAndWait")
    /\ tick' = FALSE
    /\ profPolls' = profPolls + 1
    /\ pollsSinceCreate' = IF createdAt >= 0 THEN pollsSinceCreate + 1 ELSE pollsSinceCreate
    /\ UNCHANGED <<pollerVars, toolVars>>
    /\ UNCHANGED <<sigIdx, stillRunning, now, deadline, ctxErr, envVars, parVars, lockObs>>

\* waitForProfile, case <-ctx.Done(): return false; browser.init goes on to
\* signal the process.
WaitForProfileCtxDone ==
    /\ prog = "cft" /\ pc = "waitForProfile" /\ ctxErr # "nil"
    /\ profRet' = "false" /\ profCause' = ctxErr /\ profAt' = now
    /\ pc' = "SignalAndWait"
    /\ calls' = Append(calls, "SignalAndWait")
    /\ UNCHANGED <<pollerVars, toolVars>>
    /\ UNCHANGED <<result, sigIdx, stillRunning, clkVars, envVars, parVars,
                   profPolls, pollsSinceCreate, ioErrs, lastStat, lockObs>>

\* executil.SignalAndWait: send the next signal of initSignals.
SignalSend ==
    /\ prog = "cft" /\ pc = "SignalAndWait"
    /\ proc' = deliver(initSignals[sigIdx], proc, ignoresInt, ignoresKill)
    /\ pc' = "SignalWait"
    /\ UNCHANGED <<pollerVars, toolVars>>
    /\ UNCHANGED <<result, sigIdx, stillRunning, calls, clkVars, cancelled, cancelPc,
                   profile, lock, createdAt, parVars, profObs, lockObs>>

\* executil.SignalAndWait: the process has exited, the call returns.
SignalWaitExited ==
    /\ prog = "cft" /\ pc = "SignalWait" /\ proc # "running"
    /\ pc' = "IsStopped"
    /\ UNCHANGED <<pollerVars, toolVars>>
    /\ UNCHANGED <<result, sigIdx, stillRunning, calls, clkVars, envVars, parVars,
                   profObs, lockObs>>

\* executil.SignalAndWait: the per-signal wait elapsed with the process alive;
\* go on to the next signal, or return an error after the last one.
SignalWaitElapsed ==
    /\ prog = "cft" /\ pc = "SignalWait" /\ proc = "running"
    /\ now' = now + PerSignalWait
    /\ IF sigIdx < Len(initSignals)
       THEN sigIdx' = sigIdx + 1 /\ pc' = "SignalAndWait"
       ELSE sigIdx' = sigIdx /\ pc' = "IsStopped"
    /\ UNCHANGED <<pollerVars, toolVars>>
    /\ UNCHANGED <<result, stillRunning, calls, deadline, tick, ctxErr, envVars,
                   parVars, profObs, lockObs>>

\* if !executil.IsStopped(pid) { log }, then the entry of
\* waitForLockFileRemoval (a new ticker and a new timeout context).
IsStoppedCheck ==
    /\ prog = "cft" /\ pc = "IsStopped"
    /\ stillRunning' = (proc = "running")
    /\ calls' = calls \o <<"IsStopped", "waitForLockFileRemoval">>
    /\ pc' = "waitForLockFileRemoval"
    /\ deadline' = now + timeout
    /\ tick' = FALSE
    /\ ctxErr' = IF cancelled THEN "Canceled" ELSE "nil"
    /\ UNCHANGED <<pollerVars, toolVars>>
    /\ UNCHANGED <<result, sigIdx, now, envVars, parVars, profObs, lockObs>>

\* waitForLockFileRemoval, case <-ticker.C, and browser.init's return on true.
WaitForLockFileRemovalTick ==
    /\ prog = "cft" /\ pc = "waitForLockFileRemoval" /\ tick
    /\ \E io \in IoOutcomes :
         LET st == osStat(lockFile, profile, lock, io)
             d  == waitForLockFileRemovalPoll(st)
         IN /\ lastStat' = st
            /\ IF d = "true"
               THEN /\ lockRet' = "true" /\ lockCause' = "removed"
                    /\ lockAbsentAt' = IF st = "ENOENT" THEN now ELSE lockAbsentAt
                    /\ pc' = "done"
                    /\ result' = initAfterLockWait(TRUE)
               ELSE UNCHANGED <<lockRet, lockCause, lockAbsentAt, pc, result>>
    /\ tick' = FALSE
    /\ lockPolls' = lockPolls + 1
    /\ UNCHANGED <<pollerVars, toolVars>>
    /\ UNCHANGED <<sigIdx, stillRunning, calls, now, deadline, ctxErr, envVars,
                   parVars, profRet, profCause, profPolls, profAt, pollsSinceCreate,
                   ioErrs>>

\* waitForLockFileRemoval, case <-ctx.Done(): return false; browser.init
\* returns the lock file error.
WaitForLockFileRemovalCtxDone ==
    /\ prog = "cft" /\ pc = "waitForLockFileRemoval" /\ ctxErr # "nil"
    /\ lockRet' = "false" /\ lockCause' = ctxErr
    /\ pc' = "done"
    /\ result' = initAfterLockWait(FALSE)
    /\ UNCHANGED <<pollerVars, toolVars>>
    /\ UNCHANGED <<sigIdx, stillRunning, calls, clkVars, envVars, parVars, profObs,
                   lockPolls, lockAbsentAt>>

\* A second passes while a poll loop is blocked in its select: the ticker
\* fires, and the timeout context expires when its deadline is reached.
TickerFires ==
    /\ prog = "cft" /\ InWait /\ ~tick /\ ctxErr = "nil"
    /\ now' = now + TickInterval
    /\ tick' = TRUE
    /\ ctxErr' = IF now + TickInterval >= deadline THEN "DeadlineExceeded" ELSE "nil"
    /\ UNCHANGED <<pollerVars, toolVars>>
    /\ UNCHANGED <<ctlVars, deadline, envVars, parVars, profObs, lockObs>>

\* ------------------------------------------------------------ environment
Running == prog = "cft" /\ pc \notin {"NotStarted", "done"}

\* The caller's context is cancelled.  exec.CommandContext kills the process.
Cancel ==
    /\ Running /\ ~cancelled
    /\ cancelled' = TRUE
    /\ cancelPc' = IF InWait /\ tick THEN "select+tick" ELSE pc
    /\ ctxErr' = IF InWait /\ ctxErr = "nil" THEN "Canceled" ELSE ctxErr
    /\ proc' = deliver("os.Kill", proc, ignoresInt, ignoresKill)
    /\ UNCHANGED <<pollerVars, toolVars>>
    /\ UNCHANGED <<ctlVars, now, deadline, tick, profile, lock, createdAt, parVars,
                   profObs, lockObs>>

\* The browser exits on its own.
ProcExits ==
    /\ Running /\ proc = "running"
    /\ proc' = "exited"
    /\ UNCHANGED <<pollerVars, toolVars>>
    /\ UNCHANGED <<ctlVars, clkVars, cancelled, cancelPc, profile, lock, createdAt, parVars,
                   profObs, lockObs>>

\* The browser creates its profile directory.
CreateProfileDir ==
    /\ Running /\ proc = "running" /\ profile = "absent"
    /\ profile' = "dir"
    /\ createdAt' = now
    /\ UNCHANGED <<pollerVars, toolVars>>
    /\ UNCHANGED <<ctlVars, clkVars, cancelled, cancelPc, proc, lock, parVars, profObs, lockObs>>

\* The browser takes the profile's SingletonLock.
CreateLock ==
    /\ Running /\ proc = "running" /\ profile = "dir" /\ ~lock
    /\ lock' = TRUE
    /\ UNCHANGED <<pollerVars, toolVars>>
    /\ UNCHANGED <<ctlVars, clkVars, cancelled, cancelPc, proc, profile, createdAt, parVars,
                   profObs, lockObs>>

\* The lock file is removed (by the browser on its way out, or by a helper).
RemoveLock ==
    /\ Running /\ lock
    /\ lock' = FALSE
    /\ UNCHANGED <<pollerVars, toolVars>>
    /\ UNCHANGED <<ctlVars, clkVars, cancelled, cancelPc, proc, profile, createdAt, parVars,
                   profObs, lockObs>>

\* ------------------------------------------------------------ file poller
\* os.Stat(path) of a polled file: err == nil exactly when it exists and the
\* call itself does not fail.
statFile(there, io) == IF io # "ok" THEN io ELSE IF there THEN "ok" ELSE "ENOENT"

\* waitForFile, case <-ctx.Done(): nil when the cause is errInt, else an error.
waitForFileCtxDoneAlwaysErr(cause) == "err"
waitForFileCtxDone(cause) ==
    IF cause = "errInt" THEN "nil"      \* context.Cause(ctx) == errInt
    ELSE "err"                          \* fmt.Errorf(... ctx.Err())

\* waitForFile up to its first os.Stat: return nil if the file is there.
WaitForFileFirstStat(f) ==
    /\ prog = "poller" /\ mainPc = "wg.Wait" /\ wfPc[f] = "stat"
    /\ \E io \in IoOutcomes :
         IF statFile(fileThere[f], io) = "ok"
         THEN /\ wfRet' = [wfRet EXCEPT ![f] = "nil"]
              /\ wfCause' = [wfCause EXCEPT ![f] = "exists"]
              /\ wfPc' = [wfPc EXCEPT ![f] = "send"]
         ELSE /\ wfPc' = [wfPc EXCEPT ![f] = "select"]
              /\ UNCHANGED <<wfRet, wfCause>>
    /\ UNCHANGED <<files, interval, total, mainPc, wfTick, fileThere, ctxCause,
                   interrupted, errCh, wg, exitCode, elapsed>>
    /\ UNCHANGED <<prog, cftVars, toolVars>>

\* waitForFile, case <-ticker.C.
WaitForFileTick(f) ==
    /\ prog = "poller" /\ wfPc[f] = "select" /\ wfTick[f]
    /\ wfTick' = [wfTick EXCEPT ![f] = FALSE]
    /\ \E io \in IoOutcomes :
         IF statFile(fileThere[f], io) = "ok"
         THEN /\ wfRet' = [wfRet EXCEPT ![f] = "nil"]
              /\ wfCause' = [wfCause EXCEPT ![f] = "exists"]
              /\ wfPc' = [wfPc EXCEPT ![f] = "send"]
         ELSE UNCHANGED <<wfRet, wfCause, wfPc>>
    /\ UNCHANGED <<files, interval, total, mainPc, fileThere, ctxCause,
                   interrupted, errCh, wg, exitCode, elapsed>>
    /\ UNCHANGED <<prog, cftVars, toolVars>>

\* waitForFile, case <-ctx.Done().
WaitForFileCtxDone(f) ==
    /\ prog = "poller" /\ wfPc[f] = "select" /\ ctxCause # "nil"
    /\ wfRet' = [wfRet EXCEPT ![f] = waitForFileCtxDone(ctxCause)]
    /\ wfCause' = [wfCause EXCEPT ![f] = ctxCause]
    /\ wfPc' = [wfPc EXCEPT ![f] = "send"]
    /\ UNCHANGED <<files, interval, total, mainPc, wfTick, fileThere, ctxCause,
                   interrupted, errCh, wg, exitCode, elapsed>>
    /\ UNCHANGED <<prog, cftVars, toolVars>>

\* errCh := make(chan error, len(files)): the capacity of the channel.
errChCapUnbuffered(fs) == 0
errChCap(fs) == Cardinality(fs)

\* errCh <- waitForFile(...): the send blocks while the buffer is full.
SendResult(f) ==
    /\ prog = "poller" /\ wfPc[f] = "send"
    /\ Len(errCh) < errChCap(files)
    /\ errCh' = Append(errCh, wfRet[f])
    /\ wfPc' = [wfPc EXCEPT ![f] = "wg.Done"]
    /\ UNCHANGED <<files, interval, total, mainPc, wfTick, wfRet, wfCause, fileThere,
                   ctxCause, interrupted, wg, exitCode, elapsed>>
    /\ UNCHANGED <<prog, cftVars, toolVars>>

\* wg.Done(), the goroutine ends.
WgDone(f) ==
    /\ prog = "poller" /\ wfPc[f] = "wg.Done"
    /\ wg' = wg - 1
    /\ wfPc' = [wfPc EXCEPT ![f] = "returned"]
    /\ UNCHANGED <<files, interval, total, mainPc, wfTick, wfRet, wfCause, fileThere,
                   ctxCause, interrupted, errCh, exitCode, elapsed>>
    /\ UNCHANGED <<prog, cftVars, toolVars>>

\* main: no files given: os.Exit(1); else wg.Add(len(files)) and the go
\* statements of the loop.
MainStart ==
    /\ prog = "poller" /\ mainPc = "start"
    /\ IF files = {}
       THEN mainPc' = "exit" /\ exitCode' = 1 /\ wg' = wg
       ELSE mainPc' = "wg.Wait" /\ exitCode' = exitCode /\ wg' = Cardinality(files)
    /\ UNCHANGED <<files, interval, total, wfPc, wfTick, wfRet, wfCause, fileThere,
                   ctxCause, interrupted, errCh, elapsed>>
    /\ UNCHANGED <<prog, cftVars, toolVars>>

\* main: wg.Wait() returns, close(errCh).
MainWaitReturns ==
    /\ prog = "poller" /\ mainPc = "wg.Wait" /\ wg = 0
    /\ mainPc' = "range"
    /\ UNCHANGED <<files, interval, total, wfPc, wfTick, wfRet, wfCause, fileThere,
                   ctxCause, interrupted, errCh, wg, exitCode, elapsed>>
    /\ UNCHANGED <<prog, cftVars, toolVars>>

\* main: one iteration of for err := range errCh, or its end and the exit.
MainRange ==
    /\ prog = "poller" /\ mainPc = "range"
    /\ IF errCh # <<>>
       THEN /\ errCh' = Tail(errCh)
            /\ exitCode' = IF Head(errCh) # "nil" THEN 1 ELSE exitCode
            /\ mainPc' = mainPc
       ELSE /\ errCh' = errCh
            /\ exitCode' = IF exitCode = 1 THEN 1 ELSE 0
            /\ mainPc' = "exit"
    /\ UNCHANGED <<files, interval, total, wfPc, wfTick, wfRet, wfCause, fileThere,
                   ctxCause, interrupted, wg, elapsed>>
    /\ UNCHANGED <<prog, cftVars, toolVars>>

\* The signal goroutine of main: <-sigCh; cancel(errInt).
Interrupt ==
    /\ prog = "poller" /\ mainPc \in {"wg.Wait", "range"} /\ ~interrupted
    /\ interrupted' = TRUE
    /\ ctxCause' = IF ctxCause = "nil" THEN "errInt" ELSE ctxCause
    /\ UNCHANGED <<files, interval, total, mainPc, wfPc, wfTick, wfRet, wfCause,
                   fileThere, errCh, wg, exitCode, elapsed>>
    /\ UNCHANGED <<prog, cftVars, toolVars>>

\* A second passes while every live goroutine is blocked in its select: the
\* tickers fire every interval, the timeout contexts expire at total.
PollerTime ==
    /\ prog = "poller" /\ mainPc = "wg.Wait" /\ ctxCause = "nil"
    /\ \E f \in files : wfPc[f] = "select"
    /\ \A f \in files : wfPc[f] \in {"select", "returned"} /\ ~wfTick[f]
    /\ elapsed' = elapsed + 1
    /\ wfTick' = [f \in files |-> wfPc[f] = "select" /\ (elapsed + 1) % interval = 0]
    /\ ctxCause' = IF elapsed + 1 >= total THEN "DeadlineExceeded" ELSE "nil"
    /\ UNCHANGED <<files, interval, total, mainPc, wfPc, wfRet, wfCause, fileThere,
                   interrupted, errCh, wg, exitCode>>
    /\ UNCHANGED <<prog, cftVars, toolVars>>

\* Someone creates a polled file.
CreateFile(f) ==
    /\ prog = "poller" /\ mainPc = "wg.Wait" /\ ~fileThere[f]
    /\ fileThere' = [fileThere EXCEPT ![f] = TRUE]
    /\ UNCHANGED <<files, interval, total, mainPc, wfPc, wfTick, wfRet, wfCause,
                   ctxCause, interrupted, errCh, wg, exitCode, elapsed>>
    /\ UNCHANGED <<prog, cftVars, toolVars>>

\* ------------------------------------------------------------------ runs
ToolIdle ==
    /\ ap = [calls |-> 0] /\ disk = <<>> /\ uz = [run |-> 0]
    /\ inst = <<>> /\ icfg = [initialize |-> FALSE] /\ outFile = <<>> /\ issued = {} /\ mm = <<>>

CftIdle ==
    /\ pc = "NotStarted" /\ result = NotReturned /\ sigIdx = 1 /\ stillRunning = FALSE
    /\ calls = <<>>
    /\ now = 0 /\ deadline = 0 /\ tick = FALSE /\ ctxErr = "nil"
    /\ cancelled = FALSE /\ cancelPc = "none" /\ proc = "none"
    /\ profRet = "none" /\ profCause = "none" /\ profPolls = 0 /\ profAt = -1
    /\ lockRet = "none" /\ lockCause = "none" /\ lockPolls = 0 /\ lockAbsentAt = -1
    /\ createdAt = -1 /\ pollsSinceCreate = 0 /\ ioErrs = FALSE
    /\ lastStat = "none"

PollerIdle(fs) ==
    /\ files = fs
    /\ mainPc = "start"
    /\ wfPc = [f \in fs |-> "stat"]
    /\ wfTick = [f \in fs |-> FALSE]
    /\ wfRet = [f \in fs |-> "none"]
    /\ wfCause = [f \in fs |-> "none"]
    /\ ctxCause = "nil" /\ interrupted = FALSE
    /\ errCh = <<>> /\ wg = 0 /\ exitCode = -1 /\ elapsed = 0

InitCft ==
    /\ prog = "cft"
    /\ CftIdle
    /\ timeout \in 1..MaxTimeout
    /\ ignoresInt \in BOOLEAN /\ ignoresKill \in BOOLEAN
    /\ profile \in {"absent", "dir", "file"}
    /\ lock \in (IF profile = "dir" THEN BOOLEAN ELSE {FALSE})
    /\ PollerIdle({})
    /\ interval = 1 /\ total = 1
    /\ fileThere = [f \in {} |-> FALSE]
    /\ ToolIdle

InitPoller ==
    /\ prog = "poller"
    /\ CftIdle
    /\ timeout = 1 /\ ignoresInt = FALSE /\ ignoresKill = FALSE
    /\ profile = "absent" /\ lock = FALSE
    /\ \E n \in 0..MaxFiles :
         /\ PollerIdle(1..n)
         /\ fileThere \in [1..n -> BOOLEAN]
    /\ interval \in 1..MaxInterval
    /\ total \in 1..MaxTotal
    /\ ToolIdle

Init == InitCft \/ InitPoller

Next ==
    \/ StartCmd
    \/ WaitForProfileTick
    \/ WaitForProfileCtxDone
    \/ SignalSend
    \/ SignalWaitExited
    \/ SignalWaitElapsed
    \/ IsStoppedCheck
    \/ WaitForLockFileRemovalTick
    \/ WaitForLockFileRemovalCtxDone
    \/ TickerFires
    \/ Cancel
    \/ ProcExits
    \/ CreateProfileDir
    \/ CreateLock
    \/ RemoveLock
    \/ MainStart
    \/ \E f \in files : WaitForFileFirstStat(f)
    \/ \E f \in files : WaitForFileTick(f)
    \/ \E f \in files : WaitForFileCtxDone(f)
    \/ \E f \in files : SendResult(f)
    \/ \E f \in files : WgDone(f)
    \/ MainWaitReturns
    \/ MainRange
    \/ Interrupt
    \/ PollerTime
    \/ \E f \in files : CreateFile(f)

Spec == Init /\ [][Next]_vars

\* ------------------------------------------------------- applicationPaths
\* types.go: the enumerations are integers; a value outside an enumeration
\* (the last of each range below) prints as "unknown".
PlatformLinux64 == 0
PlatformMacArm64 == 1
PlatformMacX64 == 2
PlatformWin64 == 3
ChannelStable == 0
ChannelBeta == 1
ChannelDev == 2
ChannelCanary == 3
ApplicationChrome == 0
ApplicationChromeDriver == 1
ApplicationChromeHeadlessShell == 2

Platforms == PlatformLinux64..(PlatformWin64 + 1)
ChannelValues == ChannelStable..(ChannelCanary + 1)
Applications == ApplicationChrome..(ApplicationChromeHeadlessShell + 1)

PlatformString(p) ==
    CASE p = PlatformLinux64 -> "linux64"
      [] p = PlatformMacArm64 -> "mac-arm64"
      [] p = PlatformMacX64 -> "mac-x64"
      [] p = PlatformWin64 -> "win64"
      [] OTHER -> "unknown"

ChannelString(c) ==
    CASE c = ChannelStable -> "stable"
      [] c = ChannelBeta -> "beta"
      [] c = ChannelDev -> "dev"
      [] c = ChannelCanary -> "canary"
      [] OTHER -> "unknown"

ApplicationString(a) ==
    CASE a = ApplicationChrome -> "chrome"
      [] a = ApplicationChromeDriver -> "chromedriver"
      [] a = ApplicationChromeHeadlessShell -> "chrome-headless-shell"
      [] OTHER -> "unknown"

\* A path is the sequence of its segments below the root.
installSpec(from, to, binary) == [from |-> from, to |-> to, binary |-> binary]

chromeInstallSpecs ==
    (PlatformLinux64 :> installSpec("chrome-linux64", <<"x64">>, <<"chrome">>))
    @@ (PlatformWin64 :> installSpec("chrome-win64", <<"x64">>, <<"chrome.exe">>))
    @@ (PlatformMacArm64 :>
          installSpec("chrome-mac-arm64", <<"x64">>,
                      <<"Google Chrome for Testing.app", "Contents", "MacOS",
                        "Google Chrome for Testing">>))

chromeDriverInstallSpecs ==
    (PlatformLinux64 :> installSpec("chromedriver-linux64", <<"x64">>, <<"chromedriver">>))
    @@ (PlatformWin64 :> installSpec("chromedriver-win64", <<"x64">>, <<"chromedriver.exe">>))
    @@ (PlatformMacArm64 :> installSpec("chromedriver-mac-arm64", <<"x64">>, <<"chromedriver">>))

NoPaths(err) == [prefix |-> "", binary |-> <<>>, install |-> <<>>, err |-> err]

applicationPathsFrom(root, tc, sd) ==
    LET specs == IF sd.Application = ApplicationChrome THEN chromeInstallSpecs
                 ELSE chromeDriverInstallSpecs
    IN  IF sd.Application \notin {ApplicationChrome, ApplicationChromeDriver}
        THEN NoPaths(<<"unknown application %q", ApplicationString(sd.Application)>>)
        ELSE IF sd.Platform \notin DOMAIN specs
        THEN NoPaths(<<"no install spec for platform %q", PlatformString(sd.Platform)>>)
        ELSE LET spec == specs[sd.Platform]
                 dir  == tc.cacheDir \o root
                           \o <<ApplicationString(sd.Application),
                                ChannelString(sd.Channel)>> \o spec.to
             IN  [prefix |-> spec.from, binary |-> dir \o spec.binary,
                  install |-> dir, err |-> Nil]

\* The layout without the "setup-chrome" directory under the cache root.
applicationPathsNoRoot(tc, sd) == applicationPathsFrom(<<>>, tc, sd)

\* A paths result that keeps the paths it computed although it reports an
\* unsupported platform.
applicationPathsKeepsPaths(tc, sd) ==
    LET r == applicationPathsFrom(<<"setup-chrome">>, tc,
                 [sd EXCEPT !.Platform = IF sd.Platform \in DOMAIN chromeInstallSpecs
                                         THEN sd.Platform ELSE PlatformLinux64])
        q == applicationPathsFrom(<<"setup-chrome">>, tc, sd)
    IN  [r EXCEPT !.err = q.err]

applicationPaths(tc, sd) == applicationPathsFrom(<<"setup-chrome">>, tc, sd)

\* ---- applicationPaths called on every selected download
MaxCalls == 2
CacheDirs == {<<"opt", "hostedtoolcache">>, <<"cache">>}

ApplicationPathsCall ==
    /\ prog = "paths" /\ ap.calls < MaxCalls
    /\ ap' = [ap EXCEPT !.calls = @ + 1,
                        !.prev = ap.res,
                        !.res = applicationPaths(ap.tc, ap.sd)]
    /\ UNCHANGED <<prog, cftVars, pollerVars, mm, disk, uz, inst, icfg, outFile, issued>>

OthersIdle ==
    /\ CftIdle
    /\ timeout = 1 /\ ignoresInt = FALSE /\ ignoresKill = FALSE
    /\ profile = "absent" /\ lock = FALSE
    /\ PollerIdle({})
    /\ interval = 1 /\ total = 1
    /\ fileThere = [f \in {} |-> FALSE]

InitPaths ==
    /\ prog = "paths"
    /\ OthersIdle
    /\ \E c \in ChannelValues, pl \in Platforms, a \in Applications, d \in CacheDirs :
         ap = [calls |-> 0,
               tc |-> [cacheDir |-> d],
               sd |-> [Channel |-> c, Platform |-> pl, Application |-> a],
               res |-> NoPaths(NotReturned), prev |-> NoPaths(NotReturned)]
    /\ disk = <<>> /\ uz = [run |-> 0]
    /\ inst = <<>> /\ icfg = [initialize |-> FALSE] /\ outFile = <<>> /\ issued = {} /\ mm = <<>>

NextPaths == ApplicationPathsCall

SpecPaths == InitPaths /\ [][NextPaths]_vars

\* ------------------------------------------------------------ file system
\* disk maps the absolute path of every existing file and directory (the
\* sequence of its segments, <<>> for the root) to [kind, size, w, x]: its
\* kind, its size in bytes, and the owner's write and execute permission.
\* The commands run as an ordinary user, so permissions are enforced.
Parent(path) == SubSeq(path, 1, Len(path) - 1)
Dir(w) == [kind |-> "dir", size |-> 0, w |-> w, x |-> TRUE]
File(n, w, x) == [kind |-> "file", size |-> n, w |-> w, x |-> x]
Outcome(d, err) == [disk |-> d, err |-> err]

\* os.MkdirAll(path, perm): creates the missing directories of path from the
\* root down, each with the permission perm.
RECURSIVE mkdirAllFrom(_, _, _, _)
mkdirAllFrom(d, path, k, w) ==
    IF k > Len(path) THEN Outcome(d, "nil")
    ELSE LET q == SubSeq(path, 1, k)
         IN  IF q \in DOMAIN d
             THEN IF d[q].kind = "dir" THEN mkdirAllFrom(d, path, k + 1, w)
                  ELSE Outcome(d, "ENOTDIR")
             ELSE IF ~d[Parent(q)].w THEN Outcome(d, "EACCES")
             ELSE mkdirAllFrom((q :> Dir(w)) @@ d, path, k + 1, w)

MkdirAll(d, path, w) == mkdirAllFrom(d, path, 1, w)

\* The error of resolving the directories leading to path, or "nil".
RECURSIVE lookupFrom(_, _, _)
lookupFrom(d, path, k) ==
    IF k >= Len(path) THEN "nil"
    ELSE LET q == SubSeq(path, 1, k)
         IN  IF q \notin DOMAIN d THEN "ENOENT"
             ELSE IF d[q].kind # "dir" THEN "ENOTDIR"
             ELSE lookupFrom(d, path, k + 1)

\* os.OpenFile(name, O_WRONLY|O_CREATE|O_TRUNC, perm).
OpenFile(d, name, w, x) ==
    LET walk == lookupFrom(d, name, 1)
    IN  IF walk # "nil" THEN Outcome(d, walk)
        ELSE IF name \in DOMAIN d
        THEN IF d[name].kind = "dir" THEN Outcome(d, "EISDIR")
             ELSE IF ~d[name].w THEN Outcome(d, "EACCES")
             ELSE Outcome([d EXCEPT ![name].size = 0], "nil")
        ELSE IF ~d[Parent(name)].w THEN Outcome(d, "EACCES")
        ELSE Outcome((name :> File(0, w, x)) @@ d, "nil")

\* os.Create(name): OpenFile with permission 0666.
Create(d, name) == OpenFile(d, name, TRUE, FALSE)

\* exec.LookPath(path) for a path with a directory part: a file, not a
\* directory, with an execute permission.
binaryExists(d, path) ==
    /\ lookupFrom(d, path, 1) = "nil"
    /\ path \in DOMAIN d /\ d[path].kind = "file" /\ d[path].x

fileExists(d, path) ==
    /\ lookupFrom(d, path, 1) = "nil"
    /\ path \in DOMAIN d /\ d[path].kind # "dir"

\* ------------------------------------------------------------------ unzip
\* A name in an archive is [abs, segs]: whether it starts with "/" and its
\* "/"-separated elements, which may be "." and "..".
RECURSIVE cleanSegs(_, _, _)
cleanSegs(rest, acc, abs) ==
    IF rest = <<>> THEN acc
    ELSE LET e == Head(rest)
             next == CASE e \in {"", "."} -> acc
                       [] e = ".." ->
                            IF acc # <<>> /\ acc[Len(acc)] # ".."
                            THEN SubSeq(acc, 1, Len(acc) - 1)
                            ELSE IF abs THEN acc ELSE Append(acc, "..")
                       [] OTHER -> Append(acc, e)
         IN  cleanSegs(Tail(rest), next, abs)

\* path.Clean(f.Name)
pathClean(n) == [abs |-> n.abs, segs |-> cleanSegs(n.segs, <<>>, n.abs)]

\* strings.TrimPrefix(cleaned, prefix + "/"): the prefix matches a cleaned
\* name only when its directory is followed by a further element.
TrimPrefix(c, prefix) ==
    IF ~c.abs /\ Len(c.segs) >= 2 /\ c.segs[1] = prefix
    THEN [abs |-> FALSE, segs |-> Tail(c.segs)]
    ELSE c

\* filepath.Localize fails for a name that is not local: an absolute name
\* or one that leaves its directory.  (The names it is given are cleaned.)
IsLocal(n) == ~n.abs /\ (n.segs = <<>> \/ n.segs[1] # "..")
LocalizeAnything(n) == [ok |-> TRUE, name |-> n]
Localize(n) == [ok |-> IsLocal(n), name |-> n]

\* filepath.Join(dst, name)
Join(dst, n) == cleanSegs(dst \o n.segs, <<>>, TRUE)

\* io.Copy(out, rc) on an entry: the bytes written and whether it failed.
Copied(e) == IF e.read = "ok" THEN e.size ELSE e.got

\* n != int64(f.UncompressedSize64)
sizeMismatchIgnored(n, e) == FALSE
sizeMismatch(n, e) == n # e.size

\* One iteration of unzip's loop over r.File, on entry e; wrote lists the
\* file the iteration created or truncated with the bytes it copied.
Extracted(d, err, wrote) == [disk |-> d, err |-> err, wrote |-> wrote]

\* The first half of an iteration: everything up to and including the
\* creation or truncation of the file; open tells that a file was opened
\* and is still to be written.
Opened(d, err, name, open) == [disk |-> d, err |-> err, name |-> name, open |-> open]

unzipOpen(d, prefix, dst, e) ==
    LET stripped  == TrimPrefix(pathClean(e.name), prefix)
        localized == Localize(stripped)
        name      == Join(dst, localized.name)
    IN  IF e.read = "noopen"
        THEN Opened(d, <<"opening zip contents file", e.name>>, <<>>, FALSE)
        ELSE IF ~localized.ok
        THEN Opened(d, <<"localizing path", e.name>>, <<>>, FALSE)
        ELSE IF e.dir
        THEN LET m == MkdirAll(d, name, e.w)
             IN  Opened(m.disk,
                        IF m.err = "nil" THEN Nil
                        ELSE <<"creating directory", name, m.err>>, name, FALSE)
        ELSE
        LET o1 == OpenFile(d, name, e.w, e.x)
            m  == IF o1.err = "ENOENT" THEN MkdirAll(d, Parent(name), TRUE)
                  ELSE Outcome(d, "nil")
            o2 == IF o1.err = "ENOENT" /\ m.err = "nil" THEN Create(m.disk, name) ELSE o1
        IN  IF o1.err \notin {"nil", "ENOENT"}
            THEN Opened(d, <<"creating file", name, o1.err>>, name, FALSE)
            ELSE IF m.err # "nil"
            THEN Opened(m.disk, <<"creating directory for", name, m.err>>, name, FALSE)
            ELSE IF o2.err # "nil"
            THEN Opened(o2.disk, <<"creating file after creating directory", name, o2.err>>,
                        name, FALSE)
            ELSE Opened(o2.disk, Nil, name, TRUE)

\* The second half: io.Copy, out.Close and the size test.
unzipCopy(d, name, e) ==
    LET n   == Copied(e)
        out == [d EXCEPT ![name].size = n]
        w   == <<[name |-> name, n |-> n, size |-> e.size]>>
    IN  IF e.read = "err"
        THEN Extracted(out, <<"extracting file", name>>, w)
        ELSE IF sizeMismatch(n, e)
        THEN Extracted(out, <<"extracted size mismatch for file", name, e.size, n>>, w)
        ELSE Extracted(out, Nil, w)

unzipEntry(d, prefix, dst, e) ==
    LET o == unzipOpen(d, prefix, dst, e)
    IN  IF o.open THEN unzipCopy(o.disk, o.name, e)
        ELSE Extracted(o.disk, o.err, <<>>)

\* ---- unzip called on an archive, and called again on the same archive
MaxEntries == 2
MaxRuns == 2

\* The install of chrome, stable, for linux64 under the tool cache /cache,
\* with downloads in /tmp.
TheToolCache == [cacheDir |-> <<"cache">>, tempDir |-> <<"tmp">>, uuid |-> TRUE]
TheDownload == [Channel |-> ChannelStable, Platform |-> PlatformLinux64,
                Application |-> ApplicationChrome]
ThePaths == applicationPaths(TheToolCache, TheDownload)
RunnerDisk ==
    (<<>> :> Dir(TRUE)) @@ (<<"cache">> :> Dir(TRUE)) @@ (<<"tmp">> :> Dir(TRUE))

\* zip.FileHeader as unzip reads it, with what reading the entry yields:
\* read is "ok", "short" (got bytes instead of size, no error), "err"
\* (io.Copy fails after got bytes) or "noopen" (f.Open fails).
Entry(abs, segs, dir, size, got, read, w, x) ==
    [name |-> [abs |-> abs, segs |-> segs], dir |-> dir, size |-> size,
     got |-> got, read |-> read, w |-> w, x |-> x]
DirEntry(segs, w) == Entry(FALSE, segs, TRUE, 0, 0, "ok", w, TRUE)
FileEntry(segs, size, w, x) == Entry(FALSE, segs, FALSE, size, size, "ok", w, x)

BinaryEntry == FileEntry(<<"chrome-linux64", "chrome">>, 2, TRUE, TRUE)
EntryKinds ==
    { DirEntry(<<"chrome-linux64">>, TRUE),
      BinaryEntry,
      [BinaryEntry EXCEPT !.got = 1, !.read = "short"],
      [BinaryEntry EXCEPT !.got = 1, !.read = "err"],
      [BinaryEntry EXCEPT !.read = "noopen"],
      DirEntry(<<"chrome-linux64", "lib">>, TRUE),
      DirEntry(<<"chrome-linux64", "lib">>, FALSE),
      FileEntry(<<"chrome-linux64", "lib", "a">>, 1, TRUE, FALSE),
      FileEntry(<<"chrome-linux64", "lib", "a">>, 1, FALSE, FALSE),
      FileEntry(<<"chrome-linux64", "lib", "..", "b">>, 1, TRUE, FALSE),
      FileEntry(<<"..", "escape.txt">>, 1, TRUE, FALSE),
      Entry(TRUE, <<"etc", "passwd">>, FALSE, 1, 1, "ok", TRUE, FALSE) }

Archives == UNION { [1..n -> EntryKinds] : n \in 0..MaxEntries }

UnzipOpen ==
    /\ prog = "unzip" /\ uz.run < MaxRuns
    /\ uz.run = 0 \/ uz.err # NotReturned
    /\ uz' = [uz EXCEPT !.run = @ + 1, !.i = 1, !.log = <<>>,
                        !.err = IF uz.srcOk THEN NotReturned
                                ELSE <<"zip: not a valid zip file">>,
                        !.first = IF uz.run = 1 THEN [err |-> uz.err, disk |-> disk]
                                  ELSE @]
    /\ UNCHANGED <<prog, cftVars, pollerVars, mm, ap, disk, inst, icfg, outFile, issued>>

UnzipEntry ==
    /\ prog = "unzip" /\ uz.run >= 1 /\ uz.err = NotReturned /\ uz.i <= Len(uz.arch)
    /\ LET r == unzipEntry(disk, ThePaths.prefix, ThePaths.install, uz.arch[uz.i])
       IN  /\ disk' = r.disk
           /\ uz' = [uz EXCEPT
                       !.i = IF r.err = Nil THEN @ + 1 ELSE @,
                       !.err = IF r.err = Nil THEN NotReturned ELSE r.err,
                       !.log = IF r.wrote = <<>> THEN @
                               ELSE Append(@, [i |-> uz.i, name |-> r.wrote[1].name,
                                               n |-> r.wrote[1].n,
                                               size |-> r.wrote[1].size])]
    /\ UNCHANGED <<prog, cftVars, pollerVars, mm, ap, inst, icfg, outFile, issued>>

UnzipReturn ==
    /\ prog = "unzip" /\ uz.run >= 1 /\ uz.err = NotReturned /\ uz.i > Len(uz.arch)
    /\ uz' = [uz EXCEPT !.err = Nil]
    /\ UNCHANGED <<prog, cftVars, pollerVars, mm, ap, disk, inst, icfg, outFile, issued>>

InitUnzip ==
    /\ prog = "unzip"
    /\ OthersIdle
    /\ ap = [calls |-> 0]
    /\ \E a \in Archives, ok \in BOOLEAN :
         uz = [run |-> 0, arch |-> a, srcOk |-> ok, i |-> 1, err |-> NotReturned,
               log |-> <<>>, first |-> [err |-> NotReturned, disk |-> <<>>]]
    /\ \E there \in BOOLEAN :
         disk = IF there THEN MkdirAll(RunnerDisk, ThePaths.install, TRUE).disk
                ELSE RunnerDisk
    /\ inst = <<>> /\ icfg = [initialize |-> FALSE] /\ outFile = <<>> /\ issued = {} /\ mm = <<>>

NextUnzip == UnzipOpen \/ UnzipEntry \/ UnzipReturn

SpecUnzip == InitUnzip /\ [][NextUnzip]_vars

\* -------------------------------------------------------------- installCmd
\* Two invocations of the install command on one runner, one after the
\* other or overlapping.
Invocations == {1, 2}
\* The URLs the manifest may name for the selected download.
Urls == {"https://storage/125/chrome-linux64.zip", "https://storage/126/chrome-linux64.zip"}
\* What uuid.NewRandom can return; it does not return a value twice.
Uuids == {"uuid-a", "uuid-b"}

\* base64.RawURLEncoding of sha256.Sum256(url): a name that the URL
\* determines; different URLs of Urls have different digests.
hashString(url) ==
    IF url = "https://storage/125/chrome-linux64.zip" THEN "sha256-of-125"
    ELSE "sha256-of-126"

downloadPathByHash(tc, url, id) == tc.tempDir \o <<hashString(url)>>

\* toolCache.downloadPath, id being the value uuid.NewRandom returns.
downloadPath(tc, url, id) ==
    IF tc.uuid THEN tc.tempDir \o <<id>>
    ELSE tc.tempDir \o <<hashString(url)>>

\* The archives served for chrome, stable, linux64: a complete one, one
\* whose binary is truncated, one with an entry that leaves the archive
\* after the binary, and one without the binary.
RootEntry == DirEntry(<<"chrome-linux64">>, TRUE)
InstallArchives ==
    { <<RootEntry, BinaryEntry>>,
      <<RootEntry, [BinaryEntry EXCEPT !.got = 1, !.read = "short"]>>,
      <<RootEntry, BinaryEntry, FileEntry(<<"..", "escape.txt">>, 1, TRUE, FALSE)>>,
      <<RootEntry>> }

\* A downloaded file: complete, or the part of it a failed fetch left.
Complete == File(1, TRUE, FALSE)
Partial == File(0, TRUE, FALSE)

Tc == [TheToolCache EXCEPT !.uuid = icfg.uuid]
Wrap(msg, err) == <<msg, err>>
Return(p, err) == [inst EXCEPT ![p].pc = "done", ![p].err = err]
\* A return caused by the network, the browser or a timeout.
Fault(p, err) == [inst EXCEPT ![p].pc = "done", ![p].err = err, ![p].fault = TRUE]
At(p, where) == prog = "install" /\ inst[p].pc = where
InstFrame == UNCHANGED <<prog, cftVars, pollerVars, mm, ap, uz, icfg>>

\* download_install.go:66-89: getSelectedDownload, newToolCache,
\* applicationPaths and the binaryExists test.
\* The branch on it (line 89): where installCmd continues.
afterBinaryExistsAlwaysDownload(found) == "download"
afterBinaryExists(found) == IF found THEN "getVersion" ELSE "download"

InstallResolve(p) ==
    /\ At(p, "start")
    /\ \/ inst' = Fault(p, Wrap("getting download", <<"failed getting last good versions">>))
       \/ \E u \in Urls :
            LET paths == applicationPaths(Tc, icfg.sd)
                found == binaryExists(disk, paths.binary)
                prior == {inst[q].err : q \in Invocations \ {p}}
            IN  IF paths.err # Nil
                THEN inst' = Return(p, Wrap("getting application paths", paths.err))
                ELSE inst' = [inst EXCEPT ![p].url = u, ![p].paths = paths,
                                          ![p].saw = IF found THEN "true" ELSE "false",
                                          ![p].prior = prior,
                                          ![p].pc = afterBinaryExists(found)]
    /\ UNCHANGED <<disk, outFile, issued>>
    /\ InstFrame

\* download(): downloadPath, the fileExists test and the start of
\* DownloadFile, which creates the file.
Download(p) ==
    /\ At(p, "download")
    /\ \E id \in Uuids \ issued :
         LET path == downloadPath(Tc, inst[p].url, id)
             here == fileExists(disk, path)
             done == {q \in Invocations \ {p} :
                        /\ inst[q].fetched /\ inst[q].dlPath = path
                        /\ inst[q].pc # "downloading"
                        /\ inst[q].err[1] # "downloading file"}
         IN  /\ issued' = IF icfg.uuid THEN issued \cup {id} ELSE issued
             /\ inst' = [inst EXCEPT ![p].dlPath = path,
                                     ![p].after = done,
                                     ![p].fetched = ~here,
                                     ![p].pc = IF here THEN "unzip" ELSE "downloading"]
             /\ disk' = IF here THEN disk ELSE (path :> Partial) @@ disk
    /\ UNCHANGED outFile
    /\ InstFrame

\* DownloadFile returns: the file is complete, or the fetch failed and left
\* what it had written.
DownloadFileReturns(p) ==
    /\ At(p, "downloading")
    /\ \/ /\ disk' = [disk EXCEPT ![inst[p].dlPath] = Complete]
          /\ inst' = [inst EXCEPT ![p].pc = "unzip"]
       \/ /\ disk' = disk
          /\ inst' = Fault(p, Wrap("downloading file", <<"downloading", inst[p].url>>))
    /\ UNCHANGED <<outFile, issued>>
    /\ InstFrame

\* download_install.go:96-98: an error of unzip ends installCmd.
unzipFailedDownloadsAgain(p, err) == [inst EXCEPT ![p].pc = "download"]
unzipFailed(p, err) == Return(p, Wrap("unzipping download", err))

\* unzip: zip.OpenReader(src)
InstallUnzipOpen(p) ==
    /\ At(p, "unzip")
    /\ inst' = IF disk[inst[p].dlPath] = Complete
               THEN [inst EXCEPT ![p].pc = "unzipLoop", ![p].i = 1]
               ELSE unzipFailed(p, <<"zip: not a valid zip file">>)
    /\ UNCHANGED <<disk, outFile, issued>>
    /\ InstFrame

\* unzip: one entry of r.File, up to the creation or truncation of its
\* file; after the last entry unzip returns nil and prepareInstallDir
\* (unix.go) does nothing.
AfterEntry(p) ==
    [inst EXCEPT ![p].i = @ + 1, ![p].name = <<>>,
                 ![p].pc = IF inst[p].i = Len(icfg.arch) THEN "getVersion"
                           ELSE "unzipLoop"]

InstallUnzipEntry(p) ==
    /\ At(p, "unzipLoop")
    /\ LET o == unzipOpen(disk, inst[p].paths.prefix, inst[p].paths.install,
                          icfg.arch[inst[p].i])
       IN  /\ disk' = o.disk
           /\ inst' = IF o.err # Nil THEN unzipFailed(p, o.err)
                      ELSE IF o.open
                      THEN [inst EXCEPT ![p].pc = "unzipCopy", ![p].name = o.name]
                      ELSE AfterEntry(p)
    /\ UNCHANGED <<outFile, issued>>
    /\ InstFrame

\* unzip: the entry's bytes are copied into the file it opened.
InstallUnzipCopy(p) ==
    /\ At(p, "unzipCopy")
    /\ LET r == unzipCopy(disk, inst[p].name, icfg.arch[inst[p].i])
       IN  /\ disk' = r.disk
           /\ inst' = IF r.err # Nil THEN unzipFailed(p, r.err)
                      ELSE AfterEntry(p)
    /\ UNCHANGED <<outFile, issued>>
    /\ InstFrame

\* getVersion runs the binary with a 5 second timeout: it fails when the
\* binary cannot be run or is not the whole binary, and may time out.
GetVersion(p) ==
    /\ At(p, "getVersion")
    /\ LET bin == inst[p].paths.binary
           runs == binaryExists(disk, bin) /\ disk[bin].size = BinaryEntry.size
       IN  \/ runs /\ inst' = [inst EXCEPT ![p].pc = "chrome-path"]
           \/ runs /\ inst' = Fault(p, Wrap("failed to get version for", bin))
           \/ ~runs /\ inst' = Return(p, Wrap("failed to get version for", bin))
    /\ UNCHANGED <<disk, outFile, issued>>
    /\ InstFrame

\* updateGithubActionOutput(name, value) by invocation p: the new contents
\* of the output file and the error.
updateGithubActionOutput(name, p) ==
    IF icfg.output = "unset" THEN [file |-> outFile, err |-> Nil]
    ELSE IF icfg.output = "unopenable"
    THEN [file |-> outFile, err |-> <<"opening GITHUB_OUTPUT file">>]
    ELSE [file |-> Append(outFile, <<name, p>>), err |-> Nil]

\* download_install.go:111-117
OutputChromePath(p) ==
    /\ At(p, "chrome-path")
    /\ LET o == updateGithubActionOutput("chrome-path", p)
       IN  /\ outFile' = o.file
           /\ inst' = IF o.err # Nil
                      THEN Return(p, Wrap("updating github action output", o.err))
                      ELSE IF ~icfg.initialize THEN Return(p, Nil)
                      ELSE [inst EXCEPT ![p].pc = "chrome-user-data-dir"]
    /\ UNCHANGED <<disk, issued>>
    /\ InstFrame

\* download_install.go:119-125: getUserDataDir and the second output.
OutputUserDataDir(p) ==
    /\ At(p, "chrome-user-data-dir")
    /\ LET o == updateGithubActionOutput("chrome-user-data-dir", p)
       IN  IF ~icfg.home
           THEN /\ outFile' = outFile
                /\ inst' = Return(p, Wrap("determining user data dir",
                                          <<"HOME environment variable not set">>))
           ELSE /\ outFile' = o.file
                /\ inst' = IF o.err # Nil
                           THEN Return(p, Wrap("updating github action output", o.err))
                           ELSE [inst EXCEPT ![p].pc = "init"]
    /\ UNCHANGED <<disk, issued>>
    /\ InstFrame

\* download_install.go:134-137: browser.init returns nil or one of its errors.
BrowserInit(p) ==
    /\ At(p, "init")
    /\ \E e \in {Nil, ErrStart, ErrLock} :
         inst' = IF e = Nil THEN Return(p, Nil)
                 ELSE Fault(p, Wrap("initializing browser profile", e))
    /\ UNCHANGED <<disk, outFile, issued>>
    /\ InstFrame

InitInstall ==
    /\ prog = "install"
    /\ OthersIdle
    /\ ap = [calls |-> 0] /\ uz = [run |-> 0]
    /\ \E a \in InstallArchives, init \in BOOLEAN, id \in BOOLEAN, home \in BOOLEAN,
          o \in {"unset", "file", "unopenable"},
          pl \in {PlatformLinux64, PlatformMacX64} :
         /\ init \/ home
         /\ pl = PlatformLinux64 \/ (a = <<RootEntry>> /\ ~init /\ ~id /\ o = "unset")
         /\ icfg = [initialize |-> init, uuid |-> id, output |-> o, home |-> home,
                    arch |-> a, sd |-> [TheDownload EXCEPT !.Platform = pl]]
    /\ inst = [p \in Invocations |->
                 [pc |-> "start", err |-> NotReturned, url |-> "", paths |-> NoPaths(Nil),
                  saw |-> "none", prior |-> {}, dlPath |-> <<>>, after |-> {},
                  fetched |-> FALSE, i |-> 0, name |-> <<>>, fault |-> FALSE]]
    /\ disk = RunnerDisk /\ outFile = <<>> /\ issued = {} /\ mm = <<>>

NextInstall ==
    \/ \E p \in Invocations : InstallResolve(p)
    \/ \E p \in Invocations : Download(p)
    \/ \E p \in Invocations : DownloadFileReturns(p)
    \/ \E p \in Invocations : InstallUnzipOpen(p)
    \/ \E p \in Invocations : InstallUnzipEntry(p)
    \/ \E p \in Invocations : InstallUnzipCopy(p)
    \/ \E p \in Invocations : GetVersion(p)
    \/ \E p \in Invocations : OutputChromePath(p)
    \/ \E p \in Invocations : OutputUserDataDir(p)
    \/ \E p \in Invocations : BrowserInit(p)

SpecInstall == InitInstall /\ [][NextInstall]_vars

\* ------------------------------------------------------------ newToolCache
\* A directory name given by the environment or a flag is [abs, segs]; the
\* empty string is EmptyName.
EmptyName == [abs |-> FALSE, segs |-> <<>>]
AbsName(segs) == [abs |-> TRUE, segs |-> segs]
RelName(segs) == [abs |-> FALSE, segs |-> segs]
\* os.Getwd() at start-up
cwd == <<"work">>

\* toAbs(path)
toAbs(path) ==
    IF path.abs THEN path ELSE AbsName(cleanSegs(cwd \o path.segs, <<>>, TRUE))

NoToolCache(err) == [tc |-> [tempDir |-> EmptyName, cacheDir |-> EmptyName, uuid |-> FALSE],
                     err |-> err]

\* A tool cache that takes a flag's value whenever the flag is given.
newToolCacheFlagFirst(env, cf) ==
    LET temp  == IF cf.RunnerTemp # EmptyName THEN toAbs(cf.RunnerTemp) ELSE env.RUNNER_TEMP
        cache == IF cf.RunnerCache # EmptyName THEN toAbs(cf.RunnerCache)
                 ELSE env.RUNNER_TOOL_CACHE
    IN  IF temp = EmptyName
        THEN NoToolCache(<<"runner temp dir must be specified via environment variable or command line flag">>)
        ELSE IF cache = EmptyName
        THEN NoToolCache(<<"runner tool cache dir must be specified via environment variable or command line flag">>)
        ELSE [tc |-> [tempDir |-> temp, cacheDir |-> cache, uuid |-> cf.UUIDDownload],
              err |-> Nil]

\* A tool cache that does not insist on the tool cache directory.
newToolCacheTempOnly(env, cf) ==
    LET temp == IF env.RUNNER_TEMP # EmptyName THEN env.RUNNER_TEMP ELSE toAbs(cf.RunnerTemp)
    IN  IF env.RUNNER_TEMP = EmptyName /\ cf.RunnerTemp = EmptyName
        THEN NoToolCache(<<"runner temp dir must be specified via environment variable or command line flag">>)
        ELSE [tc |-> [tempDir |-> temp,
                      cacheDir |-> IF env.RUNNER_TOOL_CACHE # EmptyName
                                   THEN env.RUNNER_TOOL_CACHE ELSE cf.RunnerCache,
                      uuid |-> cf.UUIDDownload],
              err |-> Nil]

newToolCache(env, cf) ==
    LET temp  == IF env.RUNNER_TEMP = EmptyName THEN toAbs(cf.RunnerTemp)
                 ELSE env.RUNNER_TEMP
        cache == IF env.RUNNER_TOOL_CACHE = EmptyName THEN toAbs(cf.RunnerCache)
                 ELSE env.RUNNER_TOOL_CACHE
    IN  IF env.RUNNER_TEMP = EmptyName /\ cf.RunnerTemp = EmptyName
        THEN NoToolCache(<<"runner temp dir must be specified via environment variable or command line flag">>)
        ELSE IF env.RUNNER_TOOL_CACHE = EmptyName /\ cf.RunnerCache = EmptyName
        THEN NoToolCache(<<"runner tool cache dir must be specified via environment variable or command line flag">>)
        ELSE [tc |-> [tempDir |-> temp, cacheDir |-> cache, uuid |-> cf.UUIDDownload],
              err |-> Nil]

\* ---- newToolCache called on every environment and flag setting
EnvNames == {EmptyName, AbsName(<<"runner", "env">>), RelName(<<"env">>)}
FlagNames == {EmptyName, AbsName(<<"runner", "flag">>), RelName(<<"flag">>)}

NewToolCacheCall ==
    /\ prog = "cache" /\ ap.calls = 0
    /\ ap' = [ap EXCEPT !.calls = 1, !.res = newToolCache(ap.env, ap.cf)]
    /\ UNCHANGED <<prog, cftVars, pollerVars, mm, disk, uz, inst, icfg, outFile, issued>>

InitCache ==
    /\ prog = "cache"
    /\ OthersIdle
    /\ \E et \in EnvNames, ec \in EnvNames, ft \in FlagNames, fc \in FlagNames,
          id \in BOOLEAN :
         ap = [calls |-> 0,
               env |-> [RUNNER_TEMP |-> et, RUNNER_TOOL_CACHE |-> ec],
               cf |-> [RunnerTemp |-> ft, RunnerCache |-> fc, UUIDDownload |-> id],
               res |-> NoToolCache(NotReturned)]
    /\ disk = <<>> /\ uz = [run |-> 0]
    /\ inst = <<>> /\ icfg = [initialize |-> FALSE] /\ outFile = <<>> /\ issued = {} /\ mm = <<>>

NextCache == NewToolCacheCall

SpecCache == InitCache /\ [][NextCache]_vars

\* ---------------------------------------------------- GetRequestedDownload
\* strings.ToLower on the names that occur in flags and manifests.
ToLower(str) ==
    CASE str = "Stable" -> "stable"
      [] str = "Chrome" -> "chrome"
      [] str = "Win64" -> "win64"
      [] OTHER -> str
EqualFold(a, b) == ToLower(a) = ToLower(b)

ParsePlatform(str) ==
    CASE str = "linux64" -> [v |-> PlatformLinux64, err |-> Nil]
      [] str = "mac-arm64" -> [v |-> PlatformMacArm64, err |-> Nil]
      [] str = "mac-x64" -> [v |-> PlatformMacX64, err |-> Nil]
      [] str = "win64" -> [v |-> PlatformWin64, err |-> Nil]
      [] OTHER -> [v |-> 0, err |-> <<"unknown platform", str>>]
ParseChannel(str) ==
    CASE str = "stable" -> [v |-> ChannelStable, err |-> Nil]
      [] str = "beta" -> [v |-> ChannelBeta, err |-> Nil]
      [] str = "dev" -> [v |-> ChannelDev, err |-> Nil]
      [] str = "canary" -> [v |-> ChannelCanary, err |-> Nil]
      [] OTHER -> [v |-> 0, err |-> <<"unknown channel", str>>]
ParseApplication(str) ==
    CASE str = "chrome" -> [v |-> ApplicationChrome, err |-> Nil]
      [] str = "chromedriver" -> [v |-> ApplicationChromeDriver, err |-> Nil]
      [] str = "chrome-headless-shell" -> [v |-> ApplicationChromeHeadlessShell, err |-> Nil]
      [] OTHER -> [v |-> 0, err |-> <<"unknown application", str>>]

ParseRequestedDownload(vf) ==
    LET pl == ParsePlatform(vf.Platform)
        ch == ParseChannel(vf.Channel)
        a  == ParseApplication(vf.Application)
        rd == [Channel |-> ch.v, Platform |-> pl.v, Application |-> a.v]
        no == [Channel |-> 0, Platform |-> 0, Application |-> 0]
    IN  IF pl.err # Nil THEN [rd |-> no, err |-> <<"parsing platform", pl.err>>]
        ELSE IF ch.err # Nil THEN [rd |-> no, err |-> <<"parsing channel", ch.err>>]
        ELSE IF a.err # Nil THEN [rd |-> no, err |-> <<"parsing application", a.err>>]
        ELSE [rd |-> rd, err |-> Nil]

\* A manifest (Versions.Channels) maps channel names to ChannelInfo:
\* [Version, Downloads], Downloads mapping application names to sequences
\* of Download [Platform, URL].  A URL is the sequence of its characters,
\* here of its parts.
NoDownload == [Platform |-> "", URL |-> <<>>]
NoChannelInfo == [Version |-> "", Downloads |-> <<>>]
DownloadFor(app, platform) ==
    [Platform |-> platform, URL |-> <<"https://storage/", "126/", platform, "/", app, ".zip">>]

\* Downloads.GetByPlatform
GetByPlatform(d, platform) ==
    LET hits == {k \in 1..Len(d) :
                    EqualFold(d[k].Platform, ToLower(PlatformString(platform)))}
    IN  IF hits # {}
        THEN [dl |-> d[CHOOSE k \in hits : \A l \in hits : k <= l], err |-> Nil]
        ELSE [dl |-> NoDownload,
              err |-> <<"no download for platform %q: available platforms: %v",
                        PlatformString(platform), [k \in 1..Len(d) |-> d[k].Platform]>>]

\* Versions.GetByChannel
GetByChannel(v, channel) ==
    LET hits == {k \in DOMAIN v : EqualFold(k, ToLower(ChannelString(channel)))}
    IN  IF hits # {} THEN [ci |-> v[CHOOSE k \in hits : TRUE], err |-> Nil]
        ELSE [ci |-> NoChannelInfo,
              err |-> <<"channel %q not found, available channels: %v",
                        ChannelString(channel), DOMAIN v>>]

\* ChannelInfo.GetByApplication
GetByApplication(ci, application) ==
    LET hits == {k \in DOMAIN ci.Downloads :
                    EqualFold(k, ToLower(ApplicationString(application)))}
    IN  IF hits # {} THEN [d |-> ci.Downloads[CHOOSE k \in hits : TRUE], err |-> Nil]
        ELSE [d |-> <<>>,
              err |-> <<"no downloads for application %q: available applications: %v",
                        ApplicationString(application), DOMAIN ci.Downloads>>]

\* strings.HasPrefix
HasPrefix(str, prefix) ==
    Len(prefix) <= Len(str) /\ SubSeq(str, 1, Len(prefix)) = prefix

\* Downloads.LongestCommonPrefix
RECURSIVE shrinkTo(_, _)
shrinkTo(url, prefix) ==
    IF prefix = <<>> \/ HasPrefix(url, prefix) THEN prefix
    ELSE shrinkTo(url, SubSeq(prefix, 1, Len(prefix) - 1))
RECURSIVE commonPrefixFrom(_, _, _)
commonPrefixFrom(d, k, prefix) ==
    IF k > Len(d) THEN prefix
    ELSE LET next == shrinkTo(d[k].URL, prefix)
         IN  IF next = <<>> /\ ~HasPrefix(d[k].URL, prefix) THEN <<>>
             ELSE commonPrefixFrom(d, k + 1, next)
LongestCommonPrefix(d) ==
    IF Len(d) = 0 THEN <<>> ELSE commonPrefixFrom(d, 2, d[1].URL)

NoSelectedDownload ==
    [Platform |-> 0, Channel |-> 0, Application |-> 0, Download |-> NoDownload,
     Version |-> "", Prefix |-> <<>>]

\* Versions.GetRequestedDownload
GetRequestedDownload(v, rd) ==
    LET ch == GetByChannel(v, rd.Channel)
        ds == GetByApplication(ch.ci, rd.Application)
        dl == GetByPlatform(ds.d, rd.Platform)
    IN  IF ch.err # Nil THEN [sd |-> NoSelectedDownload, err |-> ch.err]
        ELSE IF ds.err # Nil THEN [sd |-> NoSelectedDownload, err |-> ds.err]
        ELSE [sd |-> [Platform |-> rd.Platform, Channel |-> rd.Channel,
                      Application |-> rd.Application, Download |-> dl.dl,
                      Version |-> ch.ci.Version,
                      Prefix |-> LongestCommonPrefix(ds.d)],
              err |-> dl.err]

\* downloadInstallCmd.getSelectedDownload, fetched being what
\* getLastKnownGoodVersions returned: [versions, err].
getSelectedDownloadDropsCause(vf, fetched) ==
    LET parsed == ParseRequestedDownload(vf)
        got    == GetRequestedDownload(fetched.versions, parsed.rd)
    IN  IF parsed.err # Nil
        THEN [sd |-> NoSelectedDownload, err |-> <<"invalid requested download", parsed.err>>]
        ELSE IF fetched.err # Nil
        THEN [sd |-> NoSelectedDownload,
              err |-> <<"failed getting last good versions", fetched.err>>]
        ELSE IF got.err # Nil
        THEN [sd |-> got.sd, err |-> <<"getting selected download", <<"failed">>>>]
        ELSE [sd |-> got.sd, err |-> Nil]

getSelectedDownload(vf, fetched) ==
    LET parsed == ParseRequestedDownload(vf)
        got    == GetRequestedDownload(fetched.versions, parsed.rd)
    IN  IF parsed.err # Nil
        THEN [sd |-> NoSelectedDownload, err |-> <<"invalid requested download", parsed.err>>]
        ELSE IF fetched.err # Nil
        THEN [sd |-> NoSelectedDownload,
              err |-> <<"failed getting last good versions", fetched.err>>]
        ELSE IF got.err # Nil
        THEN [sd |-> got.sd, err |-> <<"getting selected download", got.err>>]
        ELSE [sd |-> got.sd, err |-> Nil]

\* ---- getSelectedDownload called on every flag setting and manifest
MaxDownloads == 2
PlatformNames == {"linux64", "Win64"}
DownloadLists(app) ==
    UNION { [1..n -> {DownloadFor(app, pn) : pn \in PlatformNames}] : n \in 0..MaxDownloads }
\* The manifests: "beta" with chromedriver for linux64, or not; "Stable"
\* with "chromedriver" for linux64, or not, and "Chrome" with any list of
\* downloads, or not.
BetaInfo ==
    [Version |-> "127",
     Downloads |-> ("chromedriver" :> <<DownloadFor("chromedriver", "linux64")>>)]
StableInfos ==
    { [Version |-> "126", Downloads |-> apps] :
        apps \in { cd @@ c :
                     cd \in {<<>>, ("chromedriver" :> <<DownloadFor("chromedriver", "linux64")>>)},
                     c \in {<<>>} \cup {("Chrome" :> l) : l \in DownloadLists("chrome")} } }
Manifests ==
    { b @@ st : b \in {<<>>, ("beta" :> BetaInfo)},
                st \in {<<>>} \cup {("Stable" :> i) : i \in StableInfos} }

GetSelectedDownloadCall ==
    /\ prog = "manifest" /\ ap.calls = 0
    /\ \E e \in {Nil, <<"Get: endpoint unreachable">>} :
         ap' = [ap EXCEPT !.calls = 1, !.fetched = (e = Nil),
                          !.res = getSelectedDownload(ap.vf,
                                      [versions |-> IF e = Nil THEN ap.versions ELSE <<>>,
                                       err |-> e])]
    /\ UNCHANGED <<prog, cftVars, pollerVars, mm, disk, uz, inst, icfg, outFile, issued>>

InitManifest ==
    /\ prog = "manifest"
    /\ OthersIdle
    /\ \E c \in {"stable", "dev", "Stable"}, pl \in {"linux64", "win64", "mac-x64"},
          a \in {"chrome", "chrome-headless-shell", "firefox"}, v \in Manifests :
         ap = [calls |-> 0, fetched |-> FALSE,
               vf |-> [Channel |-> c, Platform |-> pl, Application |-> a],
               versions |-> v,
               res |-> [sd |-> NoSelectedDownload, err |-> NotReturned]]
    /\ disk = <<>> /\ uz = [run |-> 0]
    /\ inst = <<>> /\ icfg = [initialize |-> FALSE] /\ outFile = <<>> /\ issued = {} /\ mm = <<>>

NextManifest == GetSelectedDownloadCall

SpecManifest == InitManifest /\ [][NextManifest]_vars

\* ================================================================ multimod
\* Strings whose characters matter are sequences of one-character strings.
Flow == <<",", "f", "l", "o", "w">>
TestName == <<"t", "e", "s", "t">>
LintName == <<"l", "i", "n", "t">>
GoVulnName == <<"g", "o", "v", "u", "l", "n">>
GenerateName == <<"g", "e", "n", "e", "r", "a", "t", "e">>
MarkdownName == <<"m", "a", "r", "k", "d", "o", "w", "n">>
UsageName == <<"u", "s", "a", "g", "e">>
AnnotateName == <<"a", "n", "n", "o", "t", "a", "t", "e">>
UpdateName == <<"u", "p", "d", "a", "t", "e">>
ExclusionsName == <<"e", "x", "c", "l", "u", "s", "i", "o", "n", "s">>

\* type config: the fields in their order, each with its yaml tag and
\* whether its type is []string.
configFields ==
    << [field |-> "TestCmd",    tag |-> TestName \o Flow,     slice |-> TRUE],
       [field |-> "LintCmd",    tag |-> LintName \o Flow,     slice |-> TRUE],
       [field |-> "GoVulnCmd",  tag |-> GoVulnName \o Flow,   slice |-> TRUE],
       [field |-> "Generate",   tag |-> GenerateName \o Flow, slice |-> TRUE],
       [field |-> "Markdown",   tag |-> MarkdownName \o Flow, slice |-> TRUE],
       [field |-> "Usage",      tag |-> UsageName \o Flow,    slice |-> TRUE],
       [field |-> "Annotate",   tag |-> AnnotateName \o Flow, slice |-> TRUE],
       [field |-> "Update",     tag |-> UpdateName \o Flow,   slice |-> TRUE],
       [field |-> "Exclusions", tag |-> ExclusionsName,       slice |-> FALSE] >>

\* The result of a commandForAction call: the slice it returned (nil is the
\* empty sequence), or the panic that ended it.
Found(cmd) == [panic |-> "none", cmd |-> cmd]
Panicked(why) == [panic |-> why, cmd |-> <<>>]

\* config.commandForAction, with reflection: the first field whose yaml tag
\* has the action as a prefix; the field's value is asserted to be []string.
RECURSIVE commandForActionFrom(_, _, _)
commandForActionFrom(c, action, i) ==
    IF i > Len(configFields) THEN Found(<<>>)
    ELSE IF HasPrefix(configFields[i].tag, action)
         THEN IF configFields[i].slice
              THEN Found(c[configFields[i].field])
              ELSE Panicked("interface conversion")
         ELSE commandForActionFrom(c, action, i + 1)
commandForAction(c, action) == commandForActionFrom(c, action, 1)

\* config.commandForAction of the earlier version, with a switch.
commandForActionSwitch(c, action) ==
    CASE action = TestName     -> c.TestCmd
      [] action = LintName     -> c.LintCmd
      [] action = GoVulnName   -> c.GoVulnCmd
      [] action = GenerateName -> c.Generate
      [] action = MarkdownName -> c.Markdown
      [] action = UsageName    -> c.Usage
      [] action = AnnotateName -> c.Annotate
      [] action = UpdateName   -> c.Update
      [] OTHER                 -> <<>>

\* expand: os.Expand of every argument; MULTIMOD_ROOT is the working
\* directory, every other variable expands to the empty string.
multimod_root == "/repo"
osExpand(arg) ==
    CASE arg = "--config=${MULTIMOD_ROOT}/copyright-annotation.yaml"
             -> "--config=" \o multimod_root \o "/copyright-annotation.yaml"
      [] arg = "${GOFLAGS}" -> ""
      [] OTHER -> arg
expand(command) == [j \in DOMAIN command |-> osExpand(command[j])]

\* splitCmd
RECURSIVE splitCmdFrom(_, _, _, _)
splitCmdFrom(cmdargs, j, cmds, cmd) ==
    IF j > Len(cmdargs)
    THEN IF Len(cmd) > 0 THEN Append(cmds, cmd) ELSE cmds
    ELSE IF cmdargs[j] = ";"
         THEN splitCmdFrom(cmdargs, j + 1, Append(cmds, cmd), <<>>)
         ELSE splitCmdFrom(cmdargs, j + 1, cmds, Append(cmd, cmdargs[j]))
splitCmd(cmdargs) == splitCmdFrom(cmdargs, 1, <<>>, <<>>)

\* main: cfg.Exclusions[script.action] and the modules left after it.
exclusionsOf(c, action) ==
    IF action \in DOMAIN c.Exclusions THEN c.Exclusions[action] ELSE {}
RECURSIVE allowedFrom(_, _, _)
allowedFrom(mods, excl, j) ==
    IF j > Len(mods) THEN <<>>
    ELSE IF mods[j] \in excl THEN allowedFrom(mods, excl, j + 1)
         ELSE <<mods[j]>> \o allowedFrom(mods, excl, j + 1)
allowedMods(c, action, mods) == allowedFrom(mods, exclusionsOf(c, action), 1)

\* done: print and os.Exit(1); a panic ends the process with status 2.
mmPanic(why) == [mm EXCEPT !.pc = "exited", !.exit = 2, !.panic = why]

MmFrame == UNCHANGED <<prog, cftVars, pollerVars, ap, disk, uz, inst, icfg, outFile, issued>>

\* main, the first loop: one action of flag.Args() is looked up.
MainCommandForAction ==
    /\ prog = "multimod" /\ mm.pc = "actions" /\ mm.i <= Len(mm.args)
    /\ LET action == mm.args[mm.i]
           r == commandForAction(mm.cfg, action)
           looked == [mm EXCEPT !.looked = Append(@, r)]
       IN mm' = IF r.panic # "none"
                THEN [looked EXCEPT !.pc = "exited", !.exit = 2, !.panic = r.panic]
                ELSE IF Len(r.cmd) = 0
                THEN [looked EXCEPT !.pc = "exited", !.exit = 1,
                                    !.msg = "unsupported action"]
                ELSE [looked EXCEPT !.i = @ + 1,
                         !.scripts = Append(@, [action |-> action,
                                                commands |-> expand(r.cmd)])]
    /\ MmFrame

\* main, the second loop: the next script's runInDirs call up to splitCmd,
\* or main's return after the last script.
RunInDirsCall ==
    /\ prog = "multimod"
    /\ \/ mm.pc = "actions" /\ mm.i > Len(mm.args)
       \/ mm.pc = "scripts"
    /\ LET s == IF mm.pc = "actions" THEN 1 ELSE mm.s
       IN mm' = IF s > Len(mm.scripts) THEN [mm EXCEPT !.pc = "exited", !.exit = 0, !.s = s]
                ELSE LET script == mm.scripts[s]
                     IN IF Len(script.commands) = 0
                        THEN [mm EXCEPT !.pc = "exited", !.exit = 1, !.s = s,
                                        !.msg = "running",
                                        !.ret = Append(@, <<"missing command">>)]
                        ELSE [mm EXCEPT !.pc = "command", !.s = s, !.k = 1,
                                 !.dirs = allowedMods(mm.cfg, script.action, mm.mods),
                                 !.allCmds = splitCmd(script.commands)]
    /\ MmFrame

\* runInDirs: the head of the loop over allCmds: cmd := cmdargs[0], or the
\* return of nil after the last command.
RunInDirsCommand ==
    /\ prog = "multimod" /\ mm.pc = "command"
    /\ mm' = IF mm.k > Len(mm.allCmds)
             THEN [mm EXCEPT !.pc = "scripts", !.s = @ + 1, !.ret = Append(@, Nil)]
             ELSE IF Len(mm.allCmds[mm.k]) = 0
             THEN mmPanic("index out of range")
             ELSE [mm EXCEPT !.pc = "dirs", !.d = 1, !.errs = <<>>]
    /\ MmFrame

\* runInDirs: runInDir in the next directory; cmd.Run succeeds or fails.
RunInDir ==
    /\ prog = "multimod" /\ mm.pc = "dirs" /\ mm.d <= Len(mm.dirs)
    /\ \E ok \in BOOLEAN :
         LET dir == mm.dirs[mm.d]
             cmdargs == mm.allCmds[mm.k]
             run == [s |-> mm.s, k |-> mm.k, dir |-> dir, cmd |-> cmdargs[1],
                     args |-> Tail(cmdargs), ok |-> ok]
         IN mm' = [mm EXCEPT !.d = @ + 1, !.log = Append(@, run),
                      !.errs = IF ok THEN @ ELSE Append(@, <<"action in", dir>>)]
    /\ MmFrame

\* runInDirs: errs.Err() after the last directory; main calls done on an
\* error.
RunInDirsErr ==
    /\ prog = "multimod" /\ mm.pc = "dirs" /\ mm.d > Len(mm.dirs)
    /\ mm' = IF mm.errs # <<>>
             THEN [mm EXCEPT !.pc = "exited", !.exit = 1, !.msg = "running",
                             !.ret = Append(@, mm.errs)]
             ELSE [mm EXCEPT !.pc = "command", !.k = @ + 1]
    /\ MmFrame

\* The arguments of a configured command.
MaxArgs == 3
CmdArgs == {"go", ";"}
CommandLists == UNION {[1..n -> CmdArgs] : n \in 0..MaxArgs}
\* flag.Args()
ActionStrings ==
    {TestName, LintName, GoVulnName, GenerateName, MarkdownName, UsageName,
     AnnotateName, UpdateName, ExclusionsName,
     <<>>, <<"t", "e">>, <<"u", "p">>, <<"d", "e", "p", "l", "o", "y">>}
\* The modules found below the working directory.
ModuleLists == {<<>>, <<".">>, <<".", "cmd">>}

InitMultimod ==
    /\ prog = "multimod"
    /\ OthersIdle
    /\ ap = [calls |-> 0] /\ disk = <<>> /\ uz = [run |-> 0]
    /\ inst = <<>> /\ icfg = [initialize |-> FALSE] /\ outFile = <<>> /\ issued = {}
    /\ \E update \in CommandLists, first \in ActionStrings,
          rest \in {<<>>, <<UpdateName>>, <<AnnotateName>>}, mods \in ModuleLists,
          excl \in {{}, {"cmd"}} :
         mm = [cfg |-> [TestCmd |-> <<"go", "test", "${GOFLAGS}", "./...">>,
                        LintCmd |-> <<"golangci-lint", "run", "./...">>,
                        GoVulnCmd |-> <<"govulncheck", "./...">>,
                        Generate |-> <<"go", "generate", "./...">>,
                        Markdown |-> <<"gomarkdown", "-overwrite", "./...">>,
                        Usage |-> <<"gousage", "--overwrite", "./...">>,
                        Annotate |-> <<"goannotate",
                           "--config=${MULTIMOD_ROOT}/copyright-annotation.yaml">>,
                        Update |-> update,
                        Exclusions |-> [a \in {UpdateName} |-> excl]],
               args |-> <<first>> \o rest, mods |-> mods,
               pc |-> "actions", i |-> 1, looked |-> <<>>, scripts |-> <<>>,
               s |-> 0, dirs |-> <<>>, allCmds |-> <<>>, k |-> 0, d |-> 0,
               errs |-> <<>>, log |-> <<>>, ret |-> <<>>,
               exit |-> -1, panic |-> "none", msg |-> ""]

NextMultimod ==
    \/ MainCommandForAction
    \/ RunInDirsCall
    \/ RunInDirsCommand
    \/ RunInDir
    \/ RunInDirsErr

SpecMultimod == InitMultimod /\ [][NextMultimod]_vars

\* ---------------------------------------------------------------- claims
Called(c) == \E i \in 1..Len(calls) : calls[i] = c
Returned == prog = "cft" /\ pc = "done"
\* waitForProfile is entered at time 0, so its context expires at timeout.
TimeoutPath == profCause = "DeadlineExceeded"

\* C1: every browser.init invocation that started the browser process ends
\* with that process shut down: whenever init has returned after a
\* successful cmd.Start(), the launched process is no longer running.
C1_ProcessStoppedAtReturn ==
    (Returned /\ result # ErrStart) => proc # "running"

\* C2: the interrupt/kill sequence is attempted only after waitForProfile has
\* returned false on its timeout: never while it polls, never after it
\* returned true, and from no other outcome of the wait.
C2_TerminationOnlyFromTimeout ==
    Called("SignalAndWait") =>
        /\ pc # "waitForProfile"
        /\ profRet = "false"
        /\ profCause = "DeadlineExceeded"

\* C3: browser.init never returns nil on the timeout path while the launched
\* process is still running.
C3_AliveAfterTimeoutIsError ==
    (Returned /\ TimeoutPath /\ proc = "running") => result # Nil

\* C4: after a profile timeout, terminateProcessByPath has been called before
\* browser.init returns exactly when IsStopped(pid) found the process alive
\* after the interrupt/kill attempt.
C4_FallbackByPathWhenAlive ==
    (Returned /\ TimeoutPath) => (stillRunning <=> Called("terminateProcessByPath"))

\* C5 as stated: a process that ignores the interrupt but dies on the kill
\* makes browser.init, after a profile timeout and with no cancellation,
\* return nil once the second stage has killed it, without the binary-path
\* fallback.
C5_EscalationReportsSuccess ==
    (Returned /\ TimeoutPath /\ ignoresInt /\ ~ignoresKill /\ ~cancelled
       /\ sigIdx = Len(initSignals) /\ ~stillRunning) =>
        (result = Nil /\ ~Called("terminateProcessByPath"))

\* C5 as amended: for such a process, after a profile timeout, the process is
\* stopped when waitForLockFileRemoval starts and when browser.init returns,
\* the binary-path fallback is not invoked, and browser.init returns nil
\* exactly when waitForLockFileRemoval returned true, the lock file error
\* otherwise.
C5_EscalationThenLockWait ==
    (Returned /\ TimeoutPath /\ ignoresInt /\ ~ignoresKill) =>
        /\ proc # "running" /\ ~stillRunning
        /\ ~Called("terminateProcessByPath")
        /\ (result = Nil <=> lockRet = "true")
        /\ (result # Nil => result = ErrLock)

\* The second stage killed the process and browser.init returned nil.
C5_Witness ==
    /\ Returned /\ TimeoutPath /\ ignoresInt /\ ~ignoresKill
    /\ sigIdx = 2 /\ ~cancelled /\ proc = "exited" /\ result = Nil

\* C6: on the termination path the SingletonLock file is polled only after
\* the termination attempt; browser.init returns nil only if a poll made no
\* later than the deadline saw the lock file absent; and if no poll saw it
\* absent, browser.init returns the error that names the lock file.
C6_LockFileConfirmation ==
    /\ lockPolls > 0 =>
          (Called("SignalAndWait") /\ pc \in {"waitForLockFileRemoval", "done"})
    /\ (Returned /\ Called("SignalAndWait") /\ result = Nil) =>
          (lockAbsentAt >= 0 /\ lockAbsentAt <= deadline)
    /\ (Returned /\ Called("SignalAndWait") /\ lockAbsentAt < 0) =>
          (result = ErrLock /\ result[2] = lockFile)

\* The lock file was there at every poll up to the deadline.
C6_Witness ==
    /\ Returned /\ TimeoutPath /\ ~cancelled
    /\ lockPolls >= 2 /\ lock /\ profile = "dir" /\ result = ErrLock

\* C7: a poll of waitForProfile that finds the path to be something other
\* than a directory ends the wait at once, and browser.init neither reports
\* success nor goes down the timeout path (signalling the process).
C7_NotDirIsHardFailure ==
    profCause = "notdir" =>
        /\ pc # "waitForProfile"
        /\ ~Called("SignalAndWait")
        /\ (Returned => result # Nil)

\* C8: once the governing context is cancelled while a poll loop is blocked
\* in its select, the loop's next step ends it; and the value a loop returns
\* on cancellation differs from the value a loop returns on deadline expiry.
C8_CancelStopsAndIsDistinguished ==
    [][ /\ (prog = "cft" /\ InWait /\ cancelled /\ ~tick
              /\ <<pc, profPolls, lockPolls>>' # <<pc, profPolls, lockPolls>>) => pc' # pc
        /\ (profCause' = "DeadlineExceeded" /\ lockCause' = "Canceled") =>
              profRet' # lockRet' ]_vars

\* C9 as stated: a cancellation that arrives while a poll loop is blocked
\* waiting makes browser.init, and waitForFile on an interrupt, return a
\* non-nil error.
C9_CancelIsFailure ==
    /\ (Returned /\ cancelPc \in {"waitForProfile", "waitForLockFileRemoval"}) =>
          result # Nil
    /\ \A f \in files : wfCause[f] = "errInt" => wfRet[f] = "err"

\* C9 as amended: a cancellation that arrives while a poll loop of
\* browser.init is blocked waiting ends that loop through its ctx.Done case
\* and browser.init returns a non-nil error (the lock file error);
\* waitForFile returns nil when it ends on the interrupt, and an error only
\* when it ends on its own deadline.
C9_CancelEndsLoopIsFailure ==
    /\ (Returned /\ cancelPc \in {"waitForProfile", "waitForLockFileRemoval"}) =>
          result = ErrLock
    /\ (Returned /\ (profCause = "Canceled" \/ lockCause = "Canceled")) =>
          result = ErrLock
    /\ \A f \in files :
          /\ wfCause[f] = "errInt" => wfRet[f] = "nil"
          /\ wfCause[f] = "DeadlineExceeded" => wfRet[f] = "err"

\* The cancellation arrived during waitForProfile and init returned an error.
C9_Witness ==
    /\ Returned /\ cancelPc = "waitForProfile" /\ profCause = "Canceled"
    /\ result = ErrLock

\* C10: the profile path does not exist at first, becomes a directory at time
\* createdAt and stays one; no stat fails and the context is not cancelled
\* during the wait; a tick falls after createdAt and before the deadline.
\* Then waitForProfile returns true on the first poll after the creation, at
\* most one tick interval after it, and has not polled past it before.
C10_Scenario ==
    /\ prog = "cft" /\ createdAt >= 0 /\ ~ioErrs
    /\ ~(cancelled /\ profCause \in {"none", "Canceled"})
    /\ createdAt + TickInterval < timeout

C10_ProfileSeenWithinOneCycle ==
    C10_Scenario =>
        /\ pc = "waitForProfile" =>
              (pollsSinceCreate = 0 /\ now <= createdAt + TickInterval)
        /\ pc # "waitForProfile" =>
              /\ profRet = "true"
              /\ pollsSinceCreate = 1
              /\ profAt >= createdAt /\ profAt <= createdAt + TickInterval

\* Timeout 10 s, created at 2 s, seen by the poll at 3 s.
C10_Witness ==
    /\ C10_Scenario /\ timeout = 10 /\ createdAt = 2 /\ profAt = 3
    /\ profRet = "true" /\ pollsSinceCreate = 1 /\ profPolls = 3

\* C11: the profile path never appears and the context is not cancelled
\* during the wait.  Then waitForProfile keeps waiting until its deadline and
\* not beyond it, returns false because the deadline passed, at the deadline,
\* having polled at most once per tick up to it.
C11_Scenario ==
    /\ prog = "cft" /\ pc \notin {"NotStarted"} /\ result # ErrStart
    /\ profile = "absent"
    /\ ~(cancelled /\ profCause \in {"none", "Canceled"})

C11_TimeoutNotBeforeNotAfter ==
    C11_Scenario =>
        /\ pc = "waitForProfile" =>
              (profRet = "none" /\ now <= timeout /\ (now = timeout => ctxErr # "nil"))
        /\ pc # "waitForProfile" =>
              /\ profRet = "false" /\ profCause = "DeadlineExceeded"
              /\ profAt = timeout
              /\ profPolls <= timeout

\* A 2-second timeout that expired after the polls of its ticks.
C11_Witness ==
    /\ C11_Scenario /\ timeout = 2 /\ profRet = "false" /\ profAt = 2
    /\ profPolls = 2 /\ ~cancelled

\* The selected downloads for which applicationPaths has an InstallSpec.
HasSpecTable(a) == a \in {ApplicationChrome, ApplicationChromeDriver}
HasInstallSpec(sd) ==
    /\ HasSpecTable(sd.Application)
    /\ sd.Platform \in DOMAIN (IF sd.Application = ApplicationChrome
                                THEN chromeInstallSpecs ELSE chromeDriverInstallSpecs)
InstallSpecOf(sd) ==
    IF sd.Application = ApplicationChrome THEN chromeInstallSpecs[sd.Platform]
    ELSE chromeDriverInstallSpecs[sd.Platform]
PathsCalled == prog = "paths" /\ ap.calls >= 1

\* C13 as stated: for every selected download with an InstallSpec the install
\* directory is <cacheRoot>/<application>/<channel>/<arch>, with exactly those
\* segments, the binary path is that directory followed by the InstallSpec's
\* binary suffix, and a second call returns the same three results.
C13_LayoutAsStated ==
    (PathsCalled /\ HasInstallSpec(ap.sd)) =>
        /\ ap.res.install = ap.tc.cacheDir
                              \o <<ApplicationString(ap.sd.Application),
                                   ChannelString(ap.sd.Channel)>>
                              \o InstallSpecOf(ap.sd).to
        /\ ap.res.binary = ap.res.install \o InstallSpecOf(ap.sd).binary
        /\ ap.calls >= 2 => ap.prev = ap.res

\* C13 as amended: the install directory is
\* <cacheRoot>/setup-chrome/<application>/<channel>/<arch>, with exactly those
\* segments; the binary path is that directory followed by the InstallSpec's
\* binary suffix; the prefix is the InstallSpec's archive directory; no error
\* is returned; and a second call returns the same results.
C13_LayoutUnderSetupChrome ==
    (PathsCalled /\ HasInstallSpec(ap.sd)) =>
        /\ ap.res.err = Nil
        /\ ap.res.install = ap.tc.cacheDir \o <<"setup-chrome">>
                              \o <<ApplicationString(ap.sd.Application),
                                   ChannelString(ap.sd.Channel)>>
                              \o InstallSpecOf(ap.sd).to
        /\ Len(ap.res.install) = Len(ap.tc.cacheDir) + 4
        /\ ap.res.binary = ap.res.install \o InstallSpecOf(ap.sd).binary
        /\ ap.res.prefix = InstallSpecOf(ap.sd).from
        /\ ap.calls >= 2 => ap.prev = ap.res

\* Two calls for chromedriver, beta, mac-arm64.
C13_Witness ==
    /\ PathsCalled /\ ap.calls = 2
    /\ ap.sd = [Channel |-> ChannelBeta, Platform |-> PlatformMacArm64,
                Application |-> ApplicationChromeDriver]
    /\ ap.res.install = ap.tc.cacheDir \o <<"setup-chrome", "chromedriver", "beta", "x64">>
    /\ ap.res.binary = ap.res.install \o <<"chromedriver">>

\* C14: for every (application, platform) without an InstallSpec,
\* applicationPaths returns an error that names the unsupported value (the
\* application when it has no spec table, the platform when it is missing
\* from the table) and empty paths; it never returns paths with an error.
C14_UnsupportedIsNamedError ==
    PathsCalled =>
        /\ ~HasInstallSpec(ap.sd) =>
              /\ ap.res.err # Nil
              /\ ap.res.err[2] = (IF ~HasSpecTable(ap.sd.Application)
                                  THEN ApplicationString(ap.sd.Application)
                                  ELSE PlatformString(ap.sd.Platform))
        /\ ap.res.err # Nil =>
              (ap.res.prefix = "" /\ ap.res.binary = <<>> /\ ap.res.install = <<>>)

\* chrome for mac-x64: the application has a table, the platform is not in it.
C14_Witness ==
    /\ PathsCalled
    /\ ap.sd.Application = ApplicationChrome /\ ap.sd.Platform = PlatformMacX64
    /\ ap.res = NoPaths(<<"no install spec for platform %q", "mac-x64">>)

\* ---- unzip
Under(dir, q) == Len(q) >= Len(dir) /\ SubSeq(q, 1, Len(dir)) = dir
Elements(seq) == {seq[k] : k \in 1..Len(seq)}
UnzipDone == prog = "unzip" /\ uz.run >= 1 /\ uz.err # NotReturned
Stripped(e) == TrimPrefix(pathClean(e.name), ThePaths.prefix)
\* Everything on the disk is in destDir, leads to destDir, or was there
\* before the run.
NothingOutside(dst) ==
    \A q \in DOMAIN disk : q \in DOMAIN RunnerDisk \/ Under(dst, q) \/ Under(q, dst)

RootedTree(a) ==
    /\ \A k \in 1..Len(a) :
          /\ ~a[k].name.abs /\ a[k].name.segs[1] = ThePaths.prefix
          /\ Elements(a[k].name.segs) \cap {"..", ".", ""} = {}
          /\ a[k].read = "ok"
    /\ \A k, l \in 1..Len(a) :
          k # l => /\ a[k].name # a[l].name
                   /\ ~a[k].dir => ~Under(a[k].name.segs, a[l].name.segs)
\* Where the tree of such an archive belongs under destDir.
Target(dst, e) == dst \o Tail(e.name.segs)
TreeOf(dst, a) ==
    {q \in UNION {{SubSeq(Target(dst, a[k]), 1, n) : n \in 0..Len(Target(dst, a[k]))}
                    : k \in 1..Len(a)} : Under(dst, q) /\ q # dst}

\* C17: for an archive whose entries are all rooted under prefix/, unzip
\* succeeds and leaves under destDir exactly the archive's tree with prefix/
\* stripped, every file with its declared size; extracting the same archive
\* again into the same destDir succeeds and leaves the same files.
C17_RoundTripAndIdempotent ==
    (UnzipDone /\ uz.srcOk /\ RootedTree(uz.arch)) =>
        /\ uz.err = Nil
        /\ {q \in DOMAIN disk : Under(ThePaths.install, q) /\ q # ThePaths.install}
              = TreeOf(ThePaths.install, uz.arch)
        /\ \A k \in 1..Len(uz.arch) :
              LET q == Target(ThePaths.install, uz.arch[k])
              IN  IF uz.arch[k].dir THEN disk[q].kind = "dir"
                  ELSE disk[q].kind = "file" /\ disk[q].size = uz.arch[k].size
        /\ uz.run = 2 => disk = uz.first.disk

\* C19: for every file unzip writes, the bytes copied equal the entry's
\* declared size, or else unzip returns an error for that entry at once: the
\* entry is not extracted a second time and no later entry is processed.
C19_SizeMismatchIsFatal ==
    prog = "unzip" =>
        \A j \in 1..Len(uz.log) :
            /\ \A l \in 1..Len(uz.log) : uz.log[l].i = uz.log[j].i => l = j
            /\ uz.log[j].n # uz.log[j].size =>
                  /\ j = Len(uz.log)
                  /\ uz.i = uz.log[j].i
                  /\ uz.err # Nil /\ uz.err # NotReturned
                  /\ uz.err[2] = uz.log[j].name
            /\ (uz.err = Nil \/ uz.log[j].i < uz.i) => uz.log[j].n = uz.log[j].size

\* A truncated binary, one byte of two, followed by another entry.
C19_Witness ==
    /\ UnzipDone /\ Len(uz.arch) = 2 /\ uz.i = 1
    /\ uz.arch[1].read = "short"
    /\ uz.err = <<"extracted size mismatch for file", ThePaths.binary, 2, 1>>
    /\ disk[ThePaths.binary].size = 1

\* ---- installCmd
InstallSteps == {"download", "downloading", "unzip", "unzipLoop", "unzipCopy"}

\* C12: an invocation of installCmd that finds the binary at the resolved
\* binary path performs no download and no extraction, and none of its steps
\* changes a file; download and unzip are reached only by an invocation that
\* found no binary.
C12_NoDownloadWhenBinaryExists ==
    /\ [](prog = "install" =>
            \A p \in Invocations :
                /\ inst[p].saw = "true" =>
                      /\ inst[p].pc \notin InstallSteps
                      /\ ~inst[p].fetched /\ inst[p].dlPath = <<>> /\ inst[p].i = 0
                /\ (inst[p].pc \in InstallSteps \/ inst[p].dlPath # <<>> \/ inst[p].i > 0)
                      => inst[p].saw = "false")
    /\ [][\A p \in Invocations :
             (prog = "install" /\ inst[p].saw = "true" /\ inst'[p] # inst[p])
                 => disk' = disk]_vars

\* The second invocation found the binary the first one installed, and
\* returned nil.
C12_Witness ==
    /\ prog = "install"
    /\ inst[1].saw = "false" /\ inst[1].err = Nil
    /\ inst[2].saw = "true" /\ inst[2].err = Nil /\ inst[2].pc = "done"

\* C15: in content-hash mode the download path is determined by the temp
\* directory and the URL, the same for the same URL, and a download() that
\* comes after a completed download of that URL finds the file and does not
\* fetch; in random-id mode the path is the temp directory and a random
\* name, and the paths of two calls differ.
C15_DownloadPathModes ==
    prog = "install" =>
        \A p \in Invocations :
            inst[p].dlPath # <<>> =>
                IF ~icfg.uuid
                THEN /\ inst[p].dlPath = TheToolCache.tempDir \o <<hashString(inst[p].url)>>
                     /\ \A q \in Invocations :
                           (inst[q].dlPath # <<>> /\ inst[q].url = inst[p].url)
                               => inst[q].dlPath = inst[p].dlPath
                     /\ inst[p].after # {} => ~inst[p].fetched
                ELSE /\ inst[p].dlPath \in {TheToolCache.tempDir \o <<id>> : id \in Uuids}
                     /\ \A q \in Invocations \ {p} :
                           inst[q].dlPath # <<>> => inst[q].dlPath # inst[p].dlPath

\* Content-hash mode: the second invocation's download() found the file
\* the first had fetched for the same URL.
C15_Witness ==
    /\ prog = "install" /\ ~icfg.uuid
    /\ inst[1].fetched /\ inst[2].after = {1} /\ ~inst[2].fetched
    /\ inst[2].url = inst[1].url /\ inst[2].dlPath = inst[1].dlPath
    /\ inst[2].pc \notin {"start", "download"}

ExtractionFailed(err) ==
    /\ Len(err) >= 2 /\ err[1] = "unzipping download"
    /\ err[2][1] \in {"extracted size mismatch for file", "localizing path"}
LinesOf(p) == {k \in 1..Len(outFile) : outFile[k][2] = p}

\* C18: when an extraction failed partway, on a size mismatch or an unsafe
\* path, that installCmd returns the error without writing an output, and an
\* installCmd that starts after it finds no binary: it goes through download
\* and extraction again.
C18_NoShortcutOnLeftovers ==
    prog = "install" =>
        \A p \in Invocations :
            /\ ExtractionFailed(inst[p].err) => (inst[p].pc = "done" /\ LinesOf(p) = {})
            /\ (inst[p].saw # "none" /\ \E e \in inst[p].prior : ExtractionFailed(e))
                  => inst[p].saw = "false"

\* C20: an installCmd that returned an error has appended no line to the
\* output file; and when GITHUB_OUTPUT is not set nothing is written and
\* updating the output is not an error.
C20_OutputsOnlyOnSuccess ==
    prog = "install" =>
        \A p \in Invocations :
            /\ (inst[p].pc = "done" /\ inst[p].err # Nil) => LinesOf(p) = {}
            /\ icfg.output = "unset" =>
                  (outFile = <<>> /\ inst[p].err[1] # "updating github action output")

\* ---- newToolCache
CacheCalled == prog = "cache" /\ ap.calls = 1
Supplied(envName, flagName) == envName # EmptyName \/ flagName # EmptyName

\* C21: newToolCache fails exactly when, for the temp directory or for the
\* tool-cache directory, neither the environment variable nor the flag gives
\* a value; when it succeeds tempDir and cacheDir are both non-empty.
C21_FailsExactlyWhenUnsupplied ==
    CacheCalled =>
        /\ ap.res.err # Nil <=>
              \/ ~Supplied(ap.env.RUNNER_TEMP, ap.cf.RunnerTemp)
              \/ ~Supplied(ap.env.RUNNER_TOOL_CACHE, ap.cf.RunnerCache)
        /\ ap.res.err = Nil =>
              (ap.res.tc.tempDir # EmptyName /\ ap.res.tc.cacheDir # EmptyName)

\* The temp directory comes from the flag, the tool cache from the
\* environment.
C21_Witness ==
    /\ CacheCalled /\ ap.res.err = Nil
    /\ ap.env.RUNNER_TEMP = EmptyName /\ ap.cf.RunnerCache = EmptyName
    /\ ap.res.tc.tempDir = AbsName(<<"work", "flag">>)
    /\ ap.res.tc.cacheDir = AbsName(<<"runner", "env">>)

\* C22 as stated: when the environment variable and the flag both give a
\* value for a directory, newToolCache uses the flag's value.
C22_FlagOverridesEnvironment ==
    (CacheCalled /\ ap.res.err = Nil) =>
        /\ (ap.env.RUNNER_TEMP # EmptyName /\ ap.cf.RunnerTemp # EmptyName)
              => ap.res.tc.tempDir = toAbs(ap.cf.RunnerTemp)
        /\ (ap.env.RUNNER_TOOL_CACHE # EmptyName /\ ap.cf.RunnerCache # EmptyName)
              => ap.res.tc.cacheDir = toAbs(ap.cf.RunnerCache)

\* C22 as amended: a directory is the environment variable's value, as
\* given, whenever the variable is set, also when the flag is given too; the
\* flag's value, made absolute, is used only when the variable is empty.
C22_EnvironmentOverridesFlag ==
    (CacheCalled /\ ap.res.err = Nil) =>
        /\ ap.res.tc.tempDir = (IF ap.env.RUNNER_TEMP # EmptyName THEN ap.env.RUNNER_TEMP
                                ELSE toAbs(ap.cf.RunnerTemp))
        /\ ap.res.tc.cacheDir = (IF ap.env.RUNNER_TOOL_CACHE # EmptyName
                                 THEN ap.env.RUNNER_TOOL_CACHE
                                 ELSE toAbs(ap.cf.RunnerCache))
        /\ ap.res.tc.uuid = ap.cf.UUIDDownload

\* Both are given for both directories.
C22_Witness ==
    /\ CacheCalled /\ ap.res.err = Nil
    /\ ap.env.RUNNER_TEMP = AbsName(<<"runner", "env">>)
    /\ ap.cf.RunnerTemp = AbsName(<<"runner", "flag">>)
    /\ ap.env.RUNNER_TOOL_CACHE = RelName(<<"env">>)
    /\ ap.cf.RunnerCache = RelName(<<"flag">>)
    /\ ap.res.tc.tempDir = AbsName(<<"runner", "env">>)
    /\ ap.res.tc.cacheDir = RelName(<<"env">>)

\* ---- GetRequestedDownload
Resolved == prog = "manifest" /\ ap.calls = 1 /\ ap.fetched
               /\ ParseRequestedDownload(ap.vf).err = Nil
ChannelKeys == {k \in DOMAIN ap.versions : ToLower(k) = ap.vf.Channel}
ApplicationKeys(ck) ==
    {k \in DOMAIN ap.versions[ck].Downloads : ToLower(k) = ap.vf.Application}
PlatformHits(ck, ak) ==
    LET d == ap.versions[ck].Downloads[ak]
    IN  {k \in 1..Len(d) : ToLower(d[k].Platform) = ap.vf.Platform}

\* C23: the resolution fails exactly when the manifest has no
\* case-insensitive match for the requested channel, or that channel has
\* none for the application, or that application has no download for the
\* platform; the error names the alternatives the manifest has at the level
\* that failed, and getSelectedDownload returns it wrapped, cause included.
C23_ResolutionErrors ==
    Resolved =>
        IF ChannelKeys = {}
        THEN ap.res.err = <<"getting selected download",
                            <<"channel %q not found, available channels: %v",
                              ap.vf.Channel, DOMAIN ap.versions>>>>
        ELSE \A ck \in ChannelKeys :
            IF ApplicationKeys(ck) = {}
            THEN ap.res.err = <<"getting selected download",
                                <<"no downloads for application %q: available applications: %v",
                                  ap.vf.Application, DOMAIN ap.versions[ck].Downloads>>>>
            ELSE \A ak \in ApplicationKeys(ck) :
                LET d == ap.versions[ck].Downloads[ak]
                IN  IF PlatformHits(ck, ak) = {}
                    THEN ap.res.err = <<"getting selected download",
                                        <<"no download for platform %q: available platforms: %v",
                                          ap.vf.Platform,
                                          [k \in 1..Len(d) |-> d[k].Platform]>>>>
                    ELSE /\ ap.res.err = Nil
                         /\ ToLower(ap.res.sd.Download.Platform) = ap.vf.Platform

\* win64 is found under the manifest's "Win64", the second of two downloads.
C23_Witness ==
    /\ Resolved /\ ap.res.err = Nil
    /\ ap.vf = [Channel |-> "stable", Platform |-> "win64", Application |-> "chrome"]
    /\ Len(ap.versions["Stable"].Downloads["Chrome"]) = 2
    /\ ap.res.sd.Download = DownloadFor("chrome", "Win64")
    /\ ap.res.sd.Prefix = <<"https://storage/", "126/">>

\* The default setting with the complete archive, and nothing failing that
\* is outside the two invocations: no network, browser or timeout fault.
UndisturbedInstall ==
    /\ prog = "install"
    /\ icfg.arch = <<RootEntry, BinaryEntry>> /\ icfg.uuid
    /\ icfg.sd = TheDownload /\ icfg.home /\ icfg.output # "unopenable"
    /\ \A p \in Invocations : ~inst[p].fault
TreeComplete ==
    /\ binaryExists(disk, ThePaths.binary)
    /\ disk[ThePaths.binary].size = BinaryEntry.size

\* C24: two installCmd invocations for the same binary path, interleaved in
\* any way: each of them returns nil, and when both have returned the
\* install directory holds the complete tree.
C24_RaceTolerated ==
    UndisturbedInstall =>
        /\ \A p \in Invocations : inst[p].pc = "done" => inst[p].err = Nil
        /\ (\A p \in Invocations : inst[p].pc = "done") => TreeComplete

\* The order of installCmd's steps.
StepOrder ==
    <<"start", "download", "downloading", "unzip", "unzipLoop", "getVersion",
      "chrome-path", "chrome-user-data-dir", "init", "done">>
StepOf(where) == IF where = "unzipCopy" THEN "unzipLoop" ELSE where
Rank(where) == CHOOSE k \in 1..Len(StepOrder) : StepOrder[k] = StepOf(where)

\* C26: an invocation of installCmd only moves forward through its steps,
\* so the download and the extraction are each attempted at most once and a
\* failed extraction is not followed by a download; it has an error exactly
\* when it has returned, and after the step that failed it does nothing.
C26_NoRetryAcrossSteps ==
    /\ [](prog = "install" =>
            \A p \in Invocations :
                /\ inst[p].err # NotReturned <=> inst[p].pc = "done"
                /\ inst[p].fetched => inst[p].dlPath # <<>>)
    /\ [][prog = "install" =>
            \A p \in Invocations :
                /\ inst[p].pc = "done" => inst'[p] = inst[p]
                /\ inst'[p] # inst[p] =>
                     \/ Rank(inst'[p].pc) > Rank(inst[p].pc)
                     \/ /\ StepOf(inst[p].pc) = "unzipLoop"
                        /\ StepOf(inst'[p].pc) = "unzipLoop"
                        /\ inst'[p].i >= inst[p].i
                        /\ inst'[p].dlPath = inst[p].dlPath
                /\ (inst[p].fetched /\ inst'[p].pc # "done") =>
                     (inst'[p].fetched /\ inst'[p].dlPath = inst[p].dlPath)]_vars

\* An extraction failed at its second entry after one download: the
\* invocation has returned and the other one has not started.
C26_Witness ==
    /\ prog = "install"
    /\ inst[1].pc = "done" /\ ExtractionFailed(inst[1].err)
    /\ inst[1].fetched /\ inst[1].i = 2
    /\ inst[2].pc = "start"

\* A stat of the profile that failed, and a stat of the lock file that failed
\* with something other than "does not exist".
ProfileStatErrors == {"ENOENT", "EIO", "ENOTDIR"}
LockStatErrors == {"EIO", "ENOTDIR"}
ProfilePolled == profPolls' = profPolls + 1
LockPolled == lockPolls' = lockPolls + 1

\* A poll whose stat failed leaves the loop where it is and returns nothing.
StatErrorIsRetried ==
    /\ (ProfilePolled /\ lastStat' \in ProfileStatErrors) =>
           (pc' = pc /\ profRet' = profRet /\ result' = result)
    /\ (LockPolled /\ lastStat' \in LockStatErrors) =>
           (pc' = pc /\ lockRet' = lockRet /\ result' = result)

\* The step that ends a poll loop, by the reasons in Why.
LoopEndsOnlyBy(Why) ==
    /\ (pc = "waitForProfile" /\ pc' # pc) =>
           /\ profCause' \in {"ready", "notdir"} \cup Why
           /\ profCause' \in {"ready", "notdir"} =>
                  (ProfilePolled /\ lastStat' \in {"IsDir", "NotDir"})
    /\ (pc = "waitForLockFileRemoval" /\ pc' # pc) =>
           /\ lockCause' \in {"removed"} \cup Why
           /\ lockCause' = "removed" => (LockPolled /\ lastStat' = "ENOENT")

\* C25: in waitForProfile and waitForLockFileRemoval a poll whose stat failed
\* (for the lock file: failed with other than "does not exist") does not end
\* the loop and returns nothing, and a loop ends only on an observation made
\* without such an error or when the deadline passes.
C25_OnlyObservationOrDeadline ==
    [][prog = "cft" => (StatErrorIsRetried /\ LoopEndsOnlyBy({"DeadlineExceeded"}))]_vars

\* C25, amended: as above, and a loop also ends when its context is
\* cancelled.
C25_StatErrorIsRetried ==
    [][prog = "cft" =>
         (StatErrorIsRetried /\ LoopEndsOnlyBy({"DeadlineExceeded", "Canceled"}))]_vars

\* Both loops have met an I/O error: waitForProfile earlier in the run, and
\* waitForLockFileRemoval on its latest poll, after which it still waits.
C25_Witness ==
    /\ prog = "cft" /\ pc = "waitForLockFileRemoval"
    /\ ioErrs /\ lockPolls >= 2 /\ lastStat = "EIO"
    /\ ctxErr = "nil"

\* ---------------------------------------------------------------- multimod
\* runInDirs has been called for the s-th script.
RunInDirsCalled(s) ==
    /\ s \in 1..Len(mm.scripts)
    /\ s < mm.s \/ (s = mm.s /\ mm.pc \in {"command", "dirs", "exited"})
\* The runInDir calls of the s-th script, in the order they were made.
RunsOf(s) ==
    LET OfScript(e) == e.s = s IN SelectSeq(mm.log, OfScript)
DirsOf(s) == allowedMods(mm.cfg, mm.scripts[s].action, mm.mods)
CommandsOf(s) == splitCmd(mm.scripts[s].commands)

\* The runs of a script go through its commands one after the other, and
\* for each through the directories in their order.
RunsInOrder(s) ==
    LET R == RunsOf(s)
        D == DirsOf(s)
        C == CommandsOf(s)
        n == Len(D)
    IN \A i \in DOMAIN R :
         /\ n > 0
         /\ R[i].k = ((i - 1) \div n) + 1
         /\ R[i].dir = D[((i - 1) % n) + 1]
         /\ R[i].k <= Len(C)
         /\ <<R[i].cmd>> \o R[i].args = C[R[i].k]
\* A command was started only after the one before it succeeded everywhere.
NextOnlyAfterSuccess(s) ==
    LET R == RunsOf(s)
    IN \A i, j \in DOMAIN R : (R[j].k < R[i].k) => R[j].ok
\* runInDirs returned an error exactly when a run failed.
ErrorIffFailed(s) ==
    LET R == RunsOf(s)
    IN s \in DOMAIN mm.ret =>
         (mm.ret[s] # Nil <=> \E i \in DOMAIN R : ~R[i].ok)
\* After an error main has exited with status 1 and no later action ran.
ExitAfterError(s) ==
    (s \in DOMAIN mm.ret /\ mm.ret[s] # Nil) =>
        /\ mm.pc = "exited" /\ mm.exit = 1
        /\ \A i \in DOMAIN mm.log : mm.log[i].s <= s
\* Once runInDirs is past its first command, that command has been run in
\* every directory.
FirstCommandEverywhere(s) ==
    LET R == RunsOf(s)
        FirstCmd(e) == e.k = 1
    IN (CommandsOf(s) # <<>> /\ (s < mm.s \/ mm.pc = "exited" \/ mm.k > 1)) =>
          Len(SelectSeq(R, FirstCmd)) = Len(DirsOf(s))

RunInDirsOrder(s) ==
    RunsInOrder(s) /\ NextOnlyAfterSuccess(s) /\ ErrorIffFailed(s) /\ ExitAfterError(s)

\* C27: runInDirs runs the first command of the list in every module
\* directory in order, also past a directory where it failed, starts the
\* next command only if the one before succeeded in every directory, returns
\* an error exactly when a run failed, and main then exits without running
\* a later action.
C27_CommandsInOrderAcrossDirs ==
    prog = "multimod" =>
        \A s \in 1..Len(mm.scripts) :
            RunInDirsCalled(s) => (RunInDirsOrder(s) /\ FirstCommandEverywhere(s))

\* C28: every command of the list that splitCmd made for runInDirs is
\* non-empty, and runInDirs does not index an empty command.
C28_NoEmptyCommand ==
    prog = "multimod" =>
        /\ \A k \in DOMAIN mm.allCmds : Len(mm.allCmds[k]) > 0
        /\ mm.panic # "index out of range"

\* C29: every commandForAction call of main returned, without a panic, what
\* the switch of the earlier version returns for the same action.
C29_ReflectionEqualsSwitch ==
    prog = "multimod" =>
        \A i \in DOMAIN mm.looked :
            mm.looked[i] = Found(commandForActionSwitch(mm.cfg, mm.args[i]))

\* ------------------------------------------------------------- file poller
\* No goroutine is blocked in its send, main is past wg.Wait only when every
\* goroutine has ended, and at the exit every result has been received.
PollerHandsOver ==
    /\ \A f \in files : wfPc[f] = "send" => Len(errCh) < errChCap(files)
    /\ mainPc \in {"range", "exit"} => \A f \in files : wfPc[f] = "returned"
    /\ mainPc = "exit" => errCh = <<>>
SomeWaitFailed == \E f \in files : wfRet[f] = "err"

\* C30: for every number of files no waitForFile goroutine blocks on its
\* send, main goes on only after all of them have ended, every result is
\* read, and the exit code is non-zero exactly when a wait returned an error.
C30_ExitCodeIffSomeWaitFailed ==
    prog = "poller" =>
        /\ PollerHandsOver
        /\ mainPc = "exit" => (exitCode # 0 <=> SomeWaitFailed)

\* C30, amended: the same for one file or more; with no file main exits
\* with 1 and no goroutine was started.
C30_ExitCodeIffSomeWaitFailedOrNoFiles ==
    prog = "poller" =>
        /\ PollerHandsOver
        /\ mainPc = "exit" =>
             IF files = {} THEN exitCode = 1 /\ wg = 0
             ELSE exitCode \in {0, 1} /\ (exitCode # 0 <=> SomeWaitFailed)

\* Two files: one wait ended with nil and the other with an error, both
\* results were read and main has exited with 1.
C30_Witness ==
    /\ prog = "poller" /\ mainPc = "exit" /\ Cardinality(files) = 2
    /\ exitCode = 1 /\ errCh = <<>>
    /\ \E f, g \in files : wfRet[f] = "err" /\ wfRet[g] = "nil"

TypeOK ==
    /\ pc \in {"NotStarted", "waitForProfile", "SignalAndWait", "SignalWait",
               "IsStopped", "waitForLockFileRemoval", "done"}
    /\ result \in {NotReturned, Nil, ErrStart, ErrLock}
    /\ proc \in {"none", "running", "exited"}
    /\ ctxErr \in {"nil", "Canceled", "DeadlineExceeded"}
====
